---------------------------- MODULE Spec2Model ----------------------------
(***************************************************************************)
(* Shared queues (squeue.c) of Postgres-XL: a producer session hands data  *)
(* rows to consumer sessions through per-consumer cyclic byte queues kept  *)
(* in one shared memory hash entry, synchronised by LWLocks and latches.   *)
(*                                                                         *)
(* One LWLock acquisition is one step: a step takes the lock its handler   *)
(* blocks on and runs the code up to the next LWLockAcquire, WaitLatch,    *)
(* pg_usleep or return.  The first acquisition of a handler is taken       *)
(* together with the call.                                                 *)
(***************************************************************************)
EXTENDS Integers, Sequences, FiniteSets, TLC

\* ----------------------------------------------------------------- bounds
\* number of tuples the producer passes to SharedQueueWrite in one run
MaxWrites == 3
\* size in bytes of one hash entry (SQUEUE_SIZE), two consumers
ProtoQueueSize == 20
\* size in bytes of one hash entry (SQUEUE_SIZE), one consumer
DataQueueSize == 11
\* size in bytes of one hash entry (SQUEUE_SIZE), two consumers whose
\* queues hold a row in less than half of their length
PauseQueueSize == 28

\* number of hash entries and of SQueueSyncs (NUM_SQUEUES) where several
\* queue names are explored
NUM_SQUEUES == 2
\* sq_refcnt up to which SharedQueueAcquire is explored there
MaxRefcnt == 3
\* number of SharedQueueAcquire calls of all sessions there
MaxAcquires == 5

\* ------------------------------------------------------ program constants
LONG_TUPLE == -42
CONSUMER_ACTIVE == 0
CONSUMER_EOF == 1
CONSUMER_ERROR == 2
CONSUMER_DONE == 3
\* sizeof(int): length prefix of a tuple in the queue
IntSize == 4
\* sizeof(SQueueHeader) and sizeof(ConsState), in the units of SQUEUE_SIZE
SQueueHeaderSize == 2
ConsStateSize == 1
\* tries of SharedQueueAcquire to resolve the SQueue race condition
MaxTries == 10
\* SQ_CONS_SELF, SQ_CONS_NONE of squeue.h
SQ_CONS_SELF == -1
SQ_CONS_NONE == -2

\* sessions; the pid of session p is p and its parent node id is p
Procs == {1, 2, 3}
\* payload lengths the producer writes when the data path is explored:
\* short rows, a row one byte too long for the queue, a row of more than
\* twice the length of the queue
DataLens == {1, 3, 5, 17}

\* the sessions are alike: the one whose SharedQueueBind comes first
FirstBinder == CHOOSE p \in Procs : \A q \in Procs : p <= q

NoPid == 0
NoNode == -1

SQUEUE_HDR_SIZE(nconsumers) == SQueueHeaderSize + nconsumers * ConsStateSize

Min(a, b) == IF a < b THEN a ELSE b

\* ------------------------------------------------------------ data rows
\* host format of an int: IntSize bytes, least significant first
EncodeInt(n) == [k \in 1..IntSize |-> (n \div (256 ^ (k - 1))) % 256]

DecodeInt(b) == b[1] + 256 * b[2] + 65536 * b[3] + 16777216 * b[4]

\* the row the producer emits as its k-th row for a consumer, len bytes
Payload(k, len) == [j \in 1..len |-> (32 * k + j) % 256]

\* ------------------------------------------------------ the cyclic queue
QUEUE_FREE_SPACE(cstate) ==
    IF cstate.cs_ntuples > 0
    THEN IF cstate.cs_qreadpos >= cstate.cs_qwritepos
         THEN cstate.cs_qreadpos - cstate.cs_qwritepos
         ELSE cstate.cs_qlength + cstate.cs_qreadpos - cstate.cs_qwritepos
    ELSE cstate.cs_qlength

\* memcpy(dst + at, buf, Len(buf)) inside the entry
MemCopyIn(m, at, buf) ==
    [a \in DOMAIN m |->
        IF a >= at /\ a < at + Len(buf) THEN buf[a - at + 1] ELSE m[a]]

\* memcpy(buf, src + at, len)
MemCopyOut(m, at, len) == [j \in 1..len |-> m[at + j - 1]]

\* QUEUE_WRITE(cstate, len, buf): the result is the new cstate and memory
QUEUE_WRITE(cstate, m, buf) ==
    LET len == Len(buf)
        wp == cstate.cs_qwritepos
    IN  IF wp + len <= cstate.cs_qlength
        THEN [cs |-> [cstate EXCEPT !.cs_qwritepos =
                         IF wp + len = cstate.cs_qlength THEN 0 ELSE wp + len],
              mem |-> MemCopyIn(m, cstate.cs_qstart + wp, buf)]
        ELSE LET part == cstate.cs_qlength - wp
             IN  [cs |-> [cstate EXCEPT !.cs_qwritepos = len - part],
                  mem |-> MemCopyIn(
                            MemCopyIn(m, cstate.cs_qstart + wp,
                                      SubSeq(buf, 1, part)),
                            cstate.cs_qstart,
                            SubSeq(buf, part + 1, len))]

\* QUEUE_READ(cstate, len, buf): the result is the new cstate and buf
QUEUE_READ(cstate, m, len) ==
    LET rp == cstate.cs_qreadpos
    IN  IF rp + len <= cstate.cs_qlength
        THEN [cs |-> [cstate EXCEPT !.cs_qreadpos =
                         IF rp + len = cstate.cs_qlength THEN 0 ELSE rp + len],
              buf |-> MemCopyOut(m, cstate.cs_qstart + rp, len)]
        ELSE LET part == cstate.cs_qlength - rp
             IN  [cs |-> [cstate EXCEPT !.cs_qreadpos = len - part],
                  buf |-> MemCopyOut(m, cstate.cs_qstart + rp, part)
                            \o MemCopyOut(m, cstate.cs_qstart, len - part)]

\* the next QUEUE_WRITE after the one that gave w
QueueWriteNext(w, buf) == QUEUE_WRITE(w.cs, w.mem, buf)

\* EnqueueRow without the length
EnqueueRowNoPrefix(cstate, m, msg) == QUEUE_WRITE(cstate, m, msg)

\* a tuple record: the length in host format, then the row
EnqueueRow(cstate, m, msg) ==
    QueueWriteNext(QUEUE_WRITE(cstate, m, EncodeInt(Len(msg))), msg)

\* ------------------------------------------------------ long tuples
\* PushResult counting the part as one more tuple
PushResultCounts(w, done) ==
    [cs |-> [w.cs EXCEPT !.cs_ntuples = IF @ < 0 THEN 2 ELSE @ + 1],
     mem |-> w.mem, done |-> done]

\* the end of sq_push_long_tuple: cs_ntuples = 1, return done
PushResult(w, done) ==
    [cs |-> [w.cs EXCEPT !.cs_ntuples = 1], mem |-> w.mem, done |-> done]

\* the next part starts one byte late
PushRestSkip(cstate, m, msg, offset) ==
    LET len == Len(msg) - offset
    IN  IF len > cstate.cs_qlength - IntSize
        THEN PushResult(
               QueueWriteNext(QUEUE_WRITE(cstate, m, EncodeInt(len)),
                              SubSeq(msg, offset + 2,
                                     offset + cstate.cs_qlength - IntSize
                                       + 1)),
               FALSE)
        ELSE PushResult(
               QueueWriteNext(QUEUE_WRITE(cstate, m, EncodeInt(len)),
                              SubSeq(msg, offset, Len(msg) - 1)),
               TRUE)

\* the consumer has read the previous part and left the offset at the
\* start of the queue (lines 1866-1896)
PushRest(cstate, m, msg, offset) ==
    LET len == Len(msg) - offset
    IN  IF len > cstate.cs_qlength - IntSize
        THEN PushResult(
               QueueWriteNext(QUEUE_WRITE(cstate, m, EncodeInt(len)),
                              SubSeq(msg, offset + 1,
                                     offset + cstate.cs_qlength - IntSize)),
               FALSE)
        ELSE PushResult(
               QueueWriteNext(QUEUE_WRITE(cstate, m, EncodeInt(len)),
                              SubSeq(msg, offset + 1, Len(msg))),
               TRUE)

\* sq_push_long_tuple: the result is the new cstate, memory and "done"
sq_push_long_tuple(cstate, m, msg) ==
    IF cstate.cs_ntuples = 0
    THEN PushResult(
           QueueWriteNext(QUEUE_WRITE(cstate, m, EncodeInt(Len(msg))),
                          SubSeq(msg, 1, cstate.cs_qlength - IntSize)),
           FALSE)
    ELSE PushRest(cstate, m, msg,
                  DecodeInt(MemCopyOut(m, cstate.cs_qstart, IntSize)))

\* --------------------------------------------------------- tuplestore
\* The producer's local store of one consumer: whether it was created and
\* the rows it holds.  Read pointer 0 bookmarks, read pointer 1 advances;
\* between two calls both stand at the first row, because every exit of
\* SharedQueueDump copies one pointer to the other and trims.
NoStore == [exists |-> FALSE, rows |-> << >>]

\* a store that hands back the newest row first
PutTupleSlotFirst(st, msg) ==
    [exists |-> TRUE, rows |-> <<msg>> \o st.rows]

tuplestore_puttupleslot(st, msg) ==
    [exists |-> TRUE, rows |-> Append(st.rows, msg)]

\* tuplestore_trim: drop the rows before the oldest read pointer
tuplestore_trim(rows, p0, p1) == SubSeq(rows, Min(p0, p1) + 1, Len(rows))

\* ------------------------------------------------------- SharedQueueDump
\* The state of the loop of SharedQueueDump is d: the cstate, the memory,
\* the rows of the store, the count p1 of rows before read pointer 1 (read
\* pointer 0 is copied from it at the top of each pass), whether the
\* consumer latch was set, whether the loop is left and the value returned.

\* DumpPushed without the restore of the read position
DumpPushedNoRestore(d, push) ==
    IF push.done
    THEN [d EXCEPT !.cs = push.cs, !.mem = push.mem, !.p1 = d.p1 + 1,
                   !.wake = TRUE]
    ELSE [d EXCEPT !.cs = push.cs, !.mem = push.mem,
                   !.rows = tuplestore_trim(d.rows, d.p1 + 1, d.p1 + 1),
                   !.wake = TRUE, !.ret = FALSE, !.stop = TRUE]

\* after sq_push_long_tuple (lines 771-796)
DumpPushed(d, push) ==
    IF push.done
    THEN [d EXCEPT !.cs = push.cs, !.mem = push.mem, !.p1 = d.p1 + 1,
                   !.wake = TRUE]
    ELSE [d EXCEPT !.cs = push.cs, !.mem = push.mem,
                   !.rows = tuplestore_trim(d.rows, d.p1, d.p1),
                   !.wake = TRUE, !.ret = FALSE, !.stop = TRUE]

\* after the two QUEUE_WRITE of a row that fits (lines 801-807)
DumpEnqueued(d, w) ==
    [d EXCEPT !.cs = [w.cs EXCEPT !.cs_ntuples = @ + 1], !.mem = w.mem,
              !.p1 = d.p1 + 1, !.wake = d.wake \/ d.cs.cs_ntuples = 0]

\* one pass of the loop (lines 737-809)
DumpStep(d) ==
    IF d.p1 >= Len(d.rows)
    THEN \* the store is at EOF: trim and return true (811-817)
         [d EXCEPT !.rows = tuplestore_trim(d.rows, d.p1, d.p1),
                   !.ret = TRUE, !.stop = TRUE]
    ELSE IF QUEUE_FREE_SPACE(d.cs) < IntSize + Len(d.rows[d.p1 + 1])
    THEN IF d.cs.cs_ntuples <= 0
         THEN DumpPushed(d, sq_push_long_tuple(d.cs, d.mem,
                                               d.rows[d.p1 + 1]))
         ELSE [d EXCEPT !.rows = tuplestore_trim(d.rows, d.p1, d.p1),
                        !.ret = FALSE, !.stop = TRUE]
    ELSE DumpEnqueued(d, EnqueueRow(d.cs, d.mem, d.rows[d.p1 + 1]))

RECURSIVE DumpLoop(_)
DumpLoop(d) == IF d.stop THEN d ELSE DumpLoop(DumpStep(d))

\* the result holds the new cstate (cs), memory (mem) and rows of the
\* store, the value returned (ret) and whether the latch was set (wake)
SharedQueueDump(cstate, m, st) ==
    IF cstate.cs_status # CONSUMER_ACTIVE
    THEN [cs |-> cstate, mem |-> m, rows |-> << >>, p1 |-> 0,
          wake |-> FALSE, ret |-> TRUE, stop |-> TRUE]
    ELSE DumpLoop([cs |-> cstate, mem |-> m, rows |-> st.rows, p1 |-> 0,
                   wake |-> FALSE, ret |-> FALSE, stop |-> FALSE])


\* ------------------------------------------------------------------ state
VARIABLES
    SQueueSize,          \* SQUEUE_SIZE, the size of one hash entry
    consNodes,           \* node ids taking part in the step
    distNodes,           \* node ids the result is distributed to
    inHash,              \* the queue name is a key of SharedQueues
    sq,                  \* the SQueueHeader of the hash entry
    mem,                 \* the bytes of the hash entry
    syncQueue,           \* SQueueSync.queue is not NULL
    SharedQueues,        \* SpecSync: key, sq_pid, sq_sync, sq_refcnt of each entry
    SQueueSyncs,         \* SpecSync: the queue pointer of each SQueueSync
    SQueuesLock,         \* holder of SQueuesLock, 0 if free
    sqs_producer_lwlock, \* exclusive holder and shared holders
    cs_lwlock,           \* holder of each consumer lock, 0 if free
    sqs_producer_latch,  \* is_set and owner_pid
    cs_latch,            \* is_set and owner_pid of each consumer latch
    pc,                  \* where each session stands
    loc,                 \* the local variables of each session
    tuplestore,          \* the producer's local store of each consumer
    hist                 \* rows passed to Write and rows returned by Read

vars == <<SQueueSize, consNodes, distNodes, inHash, sq, mem, syncQueue,
          SharedQueues, SQueueSyncs, SQueuesLock,
          sqs_producer_lwlock, cs_lwlock, sqs_producer_latch, cs_latch,
          pc, loc, tuplestore, hist>>

\* MaxDataNodes - 1 consumer sync entries in the sync block
MaxCons == Cardinality(Procs) - 1
SlotIds == 0..(MaxCons - 1)

\* number of consumers the callers pass to SharedQueueAcquire
NCons == Len(consNodes) - 1

Slots == 0..(sq.sq_nconsumers - 1)

FreeLatch == [is_set |-> FALSE, owner_pid |-> NoPid]
FreeProducerLock == [excl |-> 0, shared |-> {}]

Loc0 == [myindex |-> -1, i |-> 0, trycount |-> 0, failed |-> FALSE,
         canwait |-> FALSE, c_count |-> 0, running |-> 0, refcnt |-> 0,
         nstores |-> 0, datalen |-> 0, offset |-> 0, msg |-> << >>,
         consMap |-> << >>, idx |-> 0, ret |-> "none", result |-> "none",
         consNodes |-> << >>, distNodes |-> << >>,
         sqname |-> "", squeue |-> 0, sqsync |-> 0]

\* written and readout: the rows passed to SharedQueueWrite and returned by
\* SharedQueueRead for each consumer; stored: which of the written rows
\* were put into the tuplestore; inactive: a row was written while the
\* consumer was not active; bound: the sessions SharedQueueBind has
\* returned a queue to; nacquires: the calls of SharedQueueAcquire where
\* several queue names are explored
Hist0 == [written |-> [i \in SlotIds |-> << >>],
          bound |-> {},
          readout |-> [i \in SlotIds |-> << >>],
          stored |-> [i \in SlotIds |-> {}],
          inactive |-> [i \in SlotIds |-> FALSE],
          nwrites |-> 0,
          nacquires |-> 0]

\* the hash entries where several queues are explored, none in use; a
\* pointer is the index of an entry or of an SQueueSync, NULL is 0
NoQueues == [e \in 1..NUM_SQUEUES |->
               [found |-> FALSE, sq_key |-> "", sq_pid |-> 0, sq_sync |-> 0,
                sq_refcnt |-> 0]]

\* the entry memory before the first SharedQueueAcquire formats it
BlankQueue == [sq_pid |-> 0, sq_nodeid |-> NoNode, sq_sync |-> FALSE,
               sq_refcnt |-> 0, sq_nconsumers |-> 0,
               sq_consumers |-> [i \in {} |-> 0]]

\* ----------------------------------------------------- latches and locks
SetLatch(l) == [l EXCEPT !.is_set = TRUE]
ResetLatch(l) == [l EXCEPT !.is_set = FALSE]
\* OwnLatch that leaves the latch without an owner
OwnLatchForgets(l, p) == l
OwnLatch(l, p) == [l EXCEPT !.owner_pid = p]
\* DisownLatch that leaves the owner in place
DisownLatchKeeps(l) == l
DisownLatch(l) == [l EXCEPT !.owner_pid = NoPid]

ProducerLockFree == sqs_producer_lwlock.excl = 0
                    /\ sqs_producer_lwlock.shared = {}
ProducerLockSharable == sqs_producer_lwlock.excl = 0

HoldsProducerLock(p) == sqs_producer_lwlock.excl = p
                        \/ p \in sqs_producer_lwlock.shared

ReleaseProducerLock(p) ==
    [excl |-> IF sqs_producer_lwlock.excl = p THEN 0
              ELSE sqs_producer_lwlock.excl,
     shared |-> sqs_producer_lwlock.shared \ {p}]

\* slots whose cs_node is the given node
SlotsOfNode(node) == {i \in Slots : sq.sq_consumers[i].cs_node = node}
FirstOf(S) == CHOOSE i \in S : \A j \in S : i <= j

\* ------------------------------------------------------------------ Init
\* FormatSQueue with each ring starting one byte too early
FormatSQueueOverlap(old, ncons, size, haveSync) ==
    LET qsize == (size - SQUEUE_HDR_SIZE(ncons)) \div ncons
    IN  [sq_pid |-> 0, sq_nodeid |-> NoNode,
         sq_sync |-> IF haveSync THEN TRUE ELSE old.sq_sync,
         sq_refcnt |-> 1, sq_nconsumers |-> ncons,
         sq_consumers |-> [i \in 0..(ncons - 1) |->
             [cs_pid |-> 0, cs_node |-> NoNode, cs_ntuples |-> 0,
              cs_status |-> CONSUMER_ACTIVE,
              cs_qstart |-> SQUEUE_HDR_SIZE(ncons) + i * (qsize - 1),
              cs_qlength |-> qsize, cs_qreadpos |-> 0, cs_qwritepos |-> 0]]]

\* The first process acquiring the queue formats it (lines 311-369)
FormatSQueue(old, ncons, size, haveSync) ==
    LET qsize == (size - SQUEUE_HDR_SIZE(ncons)) \div ncons
    IN  [sq_pid |-> 0, sq_nodeid |-> NoNode,
         sq_sync |-> IF haveSync THEN TRUE ELSE old.sq_sync,
         sq_refcnt |-> 1, sq_nconsumers |-> ncons,
         sq_consumers |-> [i \in 0..(ncons - 1) |->
             [cs_pid |-> 0, cs_node |-> NoNode, cs_ntuples |-> 0,
              cs_status |-> CONSUMER_ACTIVE,
              cs_qstart |-> SQUEUE_HDR_SIZE(ncons) + i * qsize,
              cs_qlength |-> qsize, cs_qreadpos |-> 0, cs_qwritepos |-> 0]]]

InitCommon ==
    /\ inHash = FALSE
    /\ sq = BlankQueue
    /\ mem = [a \in 0..(SQueueSize - 1) |-> 0]
    /\ syncQueue = FALSE
    /\ SharedQueues = NoQueues
    /\ SQueueSyncs = [b \in 1..NUM_SQUEUES |-> 0]
    /\ SQueuesLock = 0
    /\ sqs_producer_lwlock = FreeProducerLock
    /\ cs_lwlock = [i \in SlotIds |-> 0]
    /\ sqs_producer_latch = FreeLatch
    /\ cs_latch = [i \in SlotIds |-> FreeLatch]
    /\ loc = [p \in Procs |-> Loc0]
    /\ tuplestore = [i \in SlotIds |-> NoStore]
    /\ hist = Hist0

\* three sessions, none has acquired the queue yet
Init ==
    /\ SQueueSize = ProtoQueueSize
    /\ consNodes = <<1, 2, 3>>
    /\ distNodes = <<1, 2, 3>>
    /\ pc = [p \in Procs |-> "idle"]
    /\ InitCommon

\* AcquireRetry counting the caller although it does not get the queue
AcquireRetryCounts(p) ==
    /\ SQueuesLock' = 0
    /\ sq' = [sq EXCEPT !.sq_refcnt = @ + 1]
    /\ pc' = [pc EXCEPT ![p] = "acq_sleep"]
    /\ UNCHANGED <<inHash, syncQueue, SharedQueues, SQueueSyncs, loc>>

\* ---------------------------------------------------- SharedQueueAcquire
\* the stale queue branch: release, sleep, count the try (lines 423-434)
AcquireRetry(p) ==
    /\ SQueuesLock' = 0
    /\ pc' = [pc EXCEPT ![p] = "acq_sleep"]
    /\ UNCHANGED <<inHash, sq, syncQueue, SharedQueues, SQueueSyncs, loc>>

AcquireLock(p) ==
    /\ pc[p] \in {"idle", "acq_again"}
    /\ SQueuesLock = 0
    /\ IF ~inHash
       THEN /\ inHash' = TRUE
            /\ sq' = FormatSQueue(sq, NCons, SQueueSize, ~syncQueue)
            /\ syncQueue' = TRUE
            /\ UNCHANGED <<SharedQueues, SQueueSyncs>>
            /\ SQueuesLock' = 0
            /\ pc' = [pc EXCEPT ![p] = "acquired"]
            /\ loc' = [loc EXCEPT ![p].trycount = 0, ![p].i = 0]
       ELSE IF sq.sq_pid # 0
            THEN IF SlotsOfNode(p) # {}
                 THEN /\ SQueuesLock' = p
                      /\ loc' = [loc EXCEPT ![p].i = FirstOf(SlotsOfNode(p))]
                      /\ pc' = [pc EXCEPT ![p] = "acq_cons"]
                      /\ UNCHANGED <<inHash, sq, syncQueue,
                                     SharedQueues, SQueueSyncs>>
                 ELSE AcquireRetry(p)
            ELSE /\ sq' = [sq EXCEPT !.sq_refcnt = @ + 1]
                 /\ SQueuesLock' = 0
                 /\ pc' = [pc EXCEPT ![p] = "acquired"]
                 /\ loc' = [loc EXCEPT ![p].trycount = 0, ![p].i = 0]
                 /\ UNCHANGED <<inHash, syncQueue, SharedQueues, SQueueSyncs>>
    /\ UNCHANGED <<SQueueSize, consNodes, distNodes, mem, sqs_producer_lwlock, cs_lwlock,
                   sqs_producer_latch, cs_latch, tuplestore, hist>>

\* AcquireCheck taking a consumer that is done for a live one
AcquireCheckFlipped(p) ==
    /\ pc[p] = "acq_cons"
    /\ cs_lwlock[loc[p].i] = 0
    /\ IF sq.sq_consumers[loc[p].i].cs_status = CONSUMER_DONE
       THEN /\ sq' = [sq EXCEPT !.sq_refcnt = @ + 1]
            /\ SQueuesLock' = 0
            /\ pc' = [pc EXCEPT ![p] = "acquired"]
            /\ loc' = [loc EXCEPT ![p].trycount = 0, ![p].i = 0]
            /\ UNCHANGED <<inHash, syncQueue, SharedQueues, SQueueSyncs>>
       ELSE AcquireRetry(p)
    /\ UNCHANGED <<SQueueSize, consNodes, distNodes, mem, sqs_producer_lwlock, cs_lwlock,
                   sqs_producer_latch, cs_latch, tuplestore, hist>>

\* verify the status of the caller's consumer under its lock (413-436)
AcquireCheck(p) ==
    /\ pc[p] = "acq_cons"
    /\ cs_lwlock[loc[p].i] = 0
    /\ IF sq.sq_consumers[loc[p].i].cs_status # CONSUMER_DONE
       THEN /\ sq' = [sq EXCEPT !.sq_refcnt = @ + 1]
            /\ SQueuesLock' = 0
            /\ pc' = [pc EXCEPT ![p] = "acquired"]
            /\ loc' = [loc EXCEPT ![p].trycount = 0, ![p].i = 0]
            /\ UNCHANGED <<inHash, syncQueue, SharedQueues, SQueueSyncs>>
       ELSE AcquireRetry(p)
    /\ UNCHANGED <<SQueueSize, consNodes, distNodes, mem, sqs_producer_lwlock, cs_lwlock,
                   sqs_producer_latch, cs_latch, tuplestore, hist>>

\* AcquireWakeup giving up one try too late
AcquireWakeupLate(p) ==
    /\ pc[p] = "acq_sleep"
    /\ IF loc[p].trycount + 1 > MaxTries
       THEN /\ loc' = [loc EXCEPT ![p] = Loc0]
            /\ pc' = [pc EXCEPT ![p] = "end"]
       ELSE /\ loc' = [loc EXCEPT ![p].trycount = @ + 1]
            /\ pc' = [pc EXCEPT ![p] = "acq_again"]
    /\ UNCHANGED <<SQueueSize, consNodes, distNodes, inHash, sq, mem, syncQueue,
                   SharedQueues, SQueueSyncs,
                   SQueuesLock, sqs_producer_lwlock, cs_lwlock,
                   sqs_producer_latch, cs_latch, tuplestore, hist>>

\* pg_usleep is over: count the try, give up after MaxTries (426-433)
AcquireWakeup(p) ==
    /\ pc[p] = "acq_sleep"
    /\ IF loc[p].trycount + 1 >= MaxTries
       THEN \* elog(ERROR): the session ends
            /\ loc' = [loc EXCEPT ![p] = Loc0]
            /\ pc' = [pc EXCEPT ![p] = "end"]
       ELSE /\ loc' = [loc EXCEPT ![p].trycount = @ + 1]
            /\ pc' = [pc EXCEPT ![p] = "acq_again"]
    /\ UNCHANGED <<SQueueSize, consNodes, distNodes, inHash, sq, mem, syncQueue,
                   SharedQueues, SQueueSyncs,
                   SQueuesLock, sqs_producer_lwlock, cs_lwlock,
                   sqs_producer_latch, cs_latch, tuplestore, hist>>


\* ------------------------------------------------------- SharedQueueBind
\* the call with its lists consNodes and distNodes: take SQueuesLock and
\* look the queue up (lines 460-479)
BindLock(p, cList, dList) ==
    /\ pc[p] = "acquired"
    /\ SQueuesLock = 0
    /\ IF inHash
       THEN /\ SQueuesLock' = p
            /\ pc' = [pc EXCEPT ![p] = "bind_prod"]
            /\ loc' = [loc EXCEPT ![p].consNodes = cList,
                                  ![p].distNodes = dList]
       ELSE \* "Shared queue not found"
            /\ SQueuesLock' = 0
            /\ pc' = [pc EXCEPT ![p] = "failed"]
            /\ loc' = [loc EXCEPT ![p].result = "notfound"]
    /\ UNCHANGED <<SQueueSize, consNodes, distNodes, inHash, sq, mem, syncQueue,
                   SharedQueues, SQueueSyncs,
                   sqs_producer_lwlock, cs_lwlock, sqs_producer_latch,
                   cs_latch, tuplestore, hist>>

\* foreach (lc, consNodes) of the consumer (lines 601-686): a listed node
\* is every member of the caller's consNodes but the producer's node
Listed(p, k) == loc[p].consNodes[k] # sq.sq_nodeid
HasSlot(node) == SlotsOfNode(node) # {}

\* the caller's node is listed and the loop finds its consumer queue
FindsOwnSlot(p) ==
    /\ HasSlot(p)
    /\ \E k \in DOMAIN loc[p].consNodes :
          loc[p].consNodes[k] = p /\ Listed(p, k)

\* Assert(i < sq->sq_nconsumers) of line 685 fails for a listed node the
\* loop visits before the caller's node
MissingBefore(p) ==
    \E k \in DOMAIN loc[p].consNodes :
        /\ Listed(p, k) /\ ~HasSlot(loc[p].consNodes[k])
        /\ \A m \in 1..k : loc[p].consNodes[m] # p

\* nconsumers of line 621 when the loop has ended
MatchedCount(p) ==
    Cardinality({k \in DOMAIN loc[p].consNodes :
                    Listed(p, k) /\ HasSlot(loc[p].consNodes[k])})

\* one of the Asserts of lines 685, 688 and 689 fails
ConsumersMismatch(p) ==
    \/ \E k \in DOMAIN loc[p].consNodes :
          Listed(p, k) /\ ~HasSlot(loc[p].consNodes[k])
    \/ ~FindsOwnSlot(p)
    \/ MatchedCount(p) # sq.sq_nconsumers

\* BindProd without the test of sq_pid: every caller takes the producer's
\* branch
BindProdNoTest(p) ==
    /\ pc[p] = "bind_prod"
    /\ ProducerLockFree
    /\ SQueuesLock' = 0
    /\ sq' = [sq EXCEPT !.sq_pid = p, !.sq_nodeid = p]
    /\ sqs_producer_latch' = OwnLatch(sqs_producer_latch, p)
    /\ sqs_producer_lwlock' = [excl |-> p, shared |-> {}]
    /\ pc' = [pc EXCEPT ![p] = "bind_cmap"]
    /\ UNCHANGED <<SQueueSize, consNodes, distNodes, inHash, mem, syncQueue,
                   SharedQueues, SQueueSyncs,
                   cs_lwlock, cs_latch, tuplestore, loc, hist>>

\* take the producer lock, release SQueuesLock, choose the role (486-503,
\* 586-635 up to the consumer lock). The checks of the consumer list are
\* Asserts: a build with assertions aborts the process where one fails, a
\* build without them goes on.
BindProd(p) ==
    /\ pc[p] = "bind_prod"
    /\ ProducerLockFree
    /\ SQueuesLock' = 0
    /\ IF sq.sq_pid = 0
       THEN /\ sq' = [sq EXCEPT !.sq_pid = p, !.sq_nodeid = p]
            /\ sqs_producer_latch' = OwnLatch(sqs_producer_latch, p)
            /\ sqs_producer_lwlock' = [excl |-> p, shared |-> {}]
            /\ pc' = [pc EXCEPT ![p] = "bind_cmap"]
            /\ UNCHANGED <<loc, hist>>
       ELSE /\ UNCHANGED <<sq, sqs_producer_latch>>
            /\ \E assertions \in BOOLEAN :
                 IF assertions /\ (MissingBefore(p) \/ ~FindsOwnSlot(p))
                 THEN \* TRAP: the process aborts holding the producer lock
                      /\ sqs_producer_lwlock' = [excl |-> p, shared |-> {}]
                      /\ pc' = [pc EXCEPT ![p] = "aborted"]
                      /\ loc' = [loc EXCEPT ![p].result = "assert",
                                            ![p].consNodes = << >>,
                                            ![p].distNodes = << >>]
                      /\ hist' = hist
                 ELSE IF FindsOwnSlot(p)
                 THEN /\ sqs_producer_lwlock' = [excl |-> p, shared |-> {}]
                      /\ pc' = [pc EXCEPT ![p] = "bind_cons"]
                      /\ loc' = [loc EXCEPT
                                   ![p].i = FirstOf(SlotsOfNode(p))]
                      /\ hist' = hist
                 ELSE \* no consumer queue of the caller: the queue is
                      \* returned and *myindex stays -1
                      /\ sqs_producer_lwlock' = sqs_producer_lwlock
                      /\ pc' = [pc EXCEPT ![p] = "consumer"]
                      /\ loc' = [loc EXCEPT ![p].myindex = -1,
                                            ![p].result = "nomyindex",
                                            ![p].consNodes = << >>,
                                            ![p].distNodes = << >>]
                      /\ hist' = [hist EXCEPT !.bound = @ \cup {p}]
    /\ UNCHANGED <<SQueueSize, consNodes, distNodes, inHash, mem, syncQueue,
                   SharedQueues, SQueueSyncs,
                   cs_lwlock, cs_latch, tuplestore>>

\* foreach(lc, distNodes) of the producer (lines 505-567): the result is
\* the consumers with their nodes assigned and the consumer map
RECURSIVE BindConsMap(_, _, _, _, _)
BindConsMap(consumers, p, dist, k, map) ==
    IF k > Len(dist)
    THEN [consumers |-> consumers, map |-> map]
    ELSE LET nodeid == dist[k]
             cand == {j \in DOMAIN consumers :
                        consumers[j].cs_node = nodeid
                        \/ consumers[j].cs_node = NoNode}
         IN  IF nodeid = p
             THEN BindConsMap(consumers, p, dist, k + 1,
                              Append(map, SQ_CONS_SELF))
             ELSE IF \E n \in DOMAIN loc[p].consNodes :
                        loc[p].consNodes[n] = nodeid
                  THEN IF cand = {}
                       THEN BindConsMap(consumers, p, dist, k + 1, map)
                       ELSE LET j == FirstOf(cand)
                            IN  IF consumers[j].cs_node = nodeid
                                THEN BindConsMap(consumers, p, dist, k + 1,
                                                 Append(map, SQ_CONS_NONE))
                                ELSE BindConsMap(
                                       [consumers EXCEPT ![j].cs_node = nodeid],
                                       p, dist, k + 1, Append(map, j))
                  ELSE BindConsMap(consumers, p, dist, k + 1,
                                   Append(map, SQ_CONS_NONE))

\* BindMap giving every node of distNodes the first consumer queue
BindMapFirstSlot(p) ==
    /\ pc[p] = "bind_cmap"
    /\ sq' = [sq EXCEPT !.sq_consumers[0].cs_node =
                           loc[p].distNodes[Len(loc[p].distNodes)]]
    /\ loc' = [loc EXCEPT
                 ![p].consMap = [k \in DOMAIN loc[p].distNodes |->
                                    IF loc[p].distNodes[k] = p
                                    THEN SQ_CONS_SELF ELSE 0],
                 ![p].myindex = -1,
                 ![p].refcnt = sq.sq_refcnt]
    /\ pc' = [pc EXCEPT ![p] = "bind_refcnt"]
    /\ UNCHANGED <<SQueueSize, consNodes, distNodes, inHash, mem, syncQueue,
                   SharedQueues, SQueueSyncs,
                   SQueuesLock, sqs_producer_lwlock, cs_lwlock,
                   sqs_producer_latch, cs_latch, tuplestore, hist>>

\* producer: build the consumer map, read sq_refcnt (505-582)
BindMap(p) ==
    /\ pc[p] = "bind_cmap"
    /\ LET r == BindConsMap(sq.sq_consumers, p, loc[p].distNodes, 1, << >>)
       IN  /\ sq' = [sq EXCEPT !.sq_consumers = r.consumers]
           /\ loc' = [loc EXCEPT ![p].consMap = r.map,
                                 ![p].myindex = -1,
                                 ![p].refcnt = sq.sq_refcnt]
    /\ pc' = [pc EXCEPT ![p] = "bind_refcnt"]
    /\ UNCHANGED <<SQueueSize, consNodes, distNodes, inHash, mem, syncQueue,
                   SharedQueues, SQueueSyncs, SQueuesLock,
                   sqs_producer_lwlock, cs_lwlock, sqs_producer_latch,
                   cs_latch, tuplestore, hist>>

\* producer: store the incremented sq_refcnt; SQueuesLock is not held, so
\* an increment made by SharedQueueAcquire since the read is overwritten
\* (lines 582, 691)
BindRefcnt(p) ==
    /\ pc[p] = "bind_refcnt"
    /\ sq' = [sq EXCEPT !.sq_refcnt = loc[p].refcnt + 1]
    /\ sqs_producer_lwlock' = ReleaseProducerLock(p)
    /\ pc' = [pc EXCEPT ![p] = "producer"]
    /\ loc' = [loc EXCEPT ![p].refcnt = 0, ![p].consNodes = << >>,
                          ![p].distNodes = << >>]
    /\ hist' = [hist EXCEPT !.bound = @ \cup {p}]
    /\ UNCHANGED <<SQueueSize, consNodes, distNodes, inHash, mem, syncQueue,
                   SharedQueues, SQueueSyncs, SQueuesLock,
                   cs_lwlock, sqs_producer_latch, cs_latch, tuplestore>>

\* the call of SharedQueueBind: FirstBinder is the first to call
BindCall(p) ==
    /\ p = FirstBinder \/ sq.sq_pid # 0
    /\ BindLock(p, consNodes, distNodes)

\* BindCons leaving the status and the producer's latch as they are when
\* the producer has failed
BindConsKeepsStatus(p) ==
    /\ pc[p] = "bind_cons"
    /\ cs_lwlock[loc[p].i] = 0
    /\ LET i == loc[p].i
           cstate == sq.sq_consumers[i]
       IN  IF cstate.cs_status \in {CONSUMER_ERROR, CONSUMER_DONE}
           THEN /\ sq' = sq
                /\ sqs_producer_latch' = sqs_producer_latch
                /\ cs_latch' = cs_latch
                /\ pc' = [pc EXCEPT ![p] = "failed"]
                /\ loc' = [loc EXCEPT ![p].result = "producer_failed",
                                      ![p].i = 0,
                                      ![p].consNodes = << >>,
                                      ![p].distNodes = << >>]
                /\ hist' = hist
                /\ sqs_producer_lwlock' = ReleaseProducerLock(p)
           ELSE /\ sq' = [sq EXCEPT !.sq_consumers[i].cs_pid = p]
                /\ cs_latch' = [cs_latch EXCEPT ![i] = OwnLatch(@, p)]
                /\ sqs_producer_latch' = sqs_producer_latch
                /\ \E assertions \in BOOLEAN :
                     IF assertions /\ ConsumersMismatch(p)
                     THEN \* TRAP: the process aborts after the slot is bound
                          /\ pc' = [pc EXCEPT ![p] = "aborted"]
                          /\ loc' = [loc EXCEPT ![p].myindex = i,
                                                ![p].i = 0,
                                                ![p].result = "assert",
                                                ![p].consNodes = << >>,
                                                ![p].distNodes = << >>]
                          /\ hist' = hist
                          /\ sqs_producer_lwlock' = sqs_producer_lwlock
                     ELSE /\ pc' = [pc EXCEPT ![p] = "consumer"]
                          /\ loc' = [loc EXCEPT ![p].myindex = i, ![p].i = 0,
                                                ![p].consNodes = << >>,
                                                ![p].distNodes = << >>]
                          /\ hist' = [hist EXCEPT !.bound = @ \cup {p}]
                          /\ sqs_producer_lwlock' = ReleaseProducerLock(p)
    /\ UNCHANGED <<SQueueSize, consNodes, distNodes, inHash, mem, syncQueue,
                   SharedQueues, SQueueSyncs,
                   SQueuesLock, cs_lwlock, tuplestore>>

\* consumer: set up the caller's consumer under its lock, end the loop
\* over consNodes and check the list (634-691)
BindCons(p) ==
    /\ pc[p] = "bind_cons"
    /\ cs_lwlock[loc[p].i] = 0
    /\ LET i == loc[p].i
           cstate == sq.sq_consumers[i]
       IN  IF cstate.cs_status \in {CONSUMER_ERROR, CONSUMER_DONE}
           THEN /\ sq' = [sq EXCEPT
                            !.sq_consumers[i].cs_status = CONSUMER_DONE]
                /\ sqs_producer_latch' = SetLatch(sqs_producer_latch)
                /\ cs_latch' = cs_latch
                /\ pc' = [pc EXCEPT ![p] = "failed"]
                /\ loc' = [loc EXCEPT ![p].result = "producer_failed",
                                      ![p].i = 0,
                                      ![p].consNodes = << >>,
                                      ![p].distNodes = << >>]
                /\ hist' = hist
                /\ sqs_producer_lwlock' = ReleaseProducerLock(p)
           ELSE /\ sq' = [sq EXCEPT !.sq_consumers[i].cs_pid = p]
                /\ cs_latch' = [cs_latch EXCEPT ![i] = OwnLatch(@, p)]
                /\ sqs_producer_latch' = sqs_producer_latch
                /\ \E assertions \in BOOLEAN :
                     IF assertions /\ ConsumersMismatch(p)
                     THEN \* TRAP: the process aborts after the slot is bound
                          /\ pc' = [pc EXCEPT ![p] = "aborted"]
                          /\ loc' = [loc EXCEPT ![p].myindex = i,
                                                ![p].i = 0,
                                                ![p].result = "assert",
                                                ![p].consNodes = << >>,
                                                ![p].distNodes = << >>]
                          /\ hist' = hist
                          /\ sqs_producer_lwlock' = sqs_producer_lwlock
                     ELSE /\ pc' = [pc EXCEPT ![p] = "consumer"]
                          /\ loc' = [loc EXCEPT ![p].myindex = i, ![p].i = 0,
                                                ![p].consNodes = << >>,
                                                ![p].distNodes = << >>]
                          /\ hist' = [hist EXCEPT !.bound = @ \cup {p}]
                          /\ sqs_producer_lwlock' = ReleaseProducerLock(p)
    /\ UNCHANGED <<SQueueSize, consNodes, distNodes, inHash, mem, syncQueue,
                   SharedQueues, SQueueSyncs,
                   SQueuesLock, cs_lwlock, tuplestore>>

\* ------------------------------------------------------ SharedQueueWrite
\* the slots the consumer map lets the producer write to
MapSlots(p) == {loc[p].consMap[k] : k \in DOMAIN loc[p].consMap} \cap Slots

\* WriteEnqueued without the increment of cs_ntuples
WriteEnqueuedNoCount(d, st, w) ==
    [cs |-> w.cs, mem |-> w.mem,
     st |-> [exists |-> st.exists, rows |-> d.rows],
     wake |-> d.wake \/ d.cs.cs_ntuples = 0]

\* the row is put into the queue (lines 935-949)
WriteEnqueued(d, st, w) ==
    [cs |-> [w.cs EXCEPT !.cs_ntuples = @ + 1], mem |-> w.mem,
     st |-> [exists |-> st.exists, rows |-> d.rows],
     wake |-> d.wake \/ d.cs.cs_ntuples = 0]

\* WriteDumped without the test of cs_status
WriteDumpedAnyStatus(d, st, msg) ==
    IF (st.exists /\ ~d.ret)
       \/ QUEUE_FREE_SPACE(d.cs) < IntSize + Len(msg)
    THEN [cs |-> d.cs, mem |-> d.mem,
          st |-> tuplestore_puttupleslot(
                    [exists |-> st.exists, rows |-> d.rows], msg),
          wake |-> d.wake]
    ELSE WriteEnqueued(d, st, EnqueueRow(d.cs, d.mem, msg))

\* lines 878-949, d being what SharedQueueDump has done, if called
WriteDumped(d, st, msg) ==
    IF (st.exists /\ ~d.ret)
       \/ QUEUE_FREE_SPACE(d.cs) < IntSize + Len(msg)
    THEN [cs |-> d.cs, mem |-> d.mem,
          st |-> tuplestore_puttupleslot(
                    [exists |-> st.exists, rows |-> d.rows], msg),
          wake |-> d.wake]
    ELSE IF d.cs.cs_status = CONSUMER_ACTIVE
         THEN WriteEnqueued(d, st, EnqueueRow(d.cs, d.mem, msg))
         ELSE [cs |-> d.cs, mem |-> d.mem,
               st |-> [exists |-> st.exists, rows |-> d.rows],
               wake |-> d.wake]

\* lines 828-956; the result is the new cstate, memory, store and whether
\* the consumer latch was set
WriteRow(cstate, m, st, msg) ==
    WriteDumped(
        IF st.exists /\ QUEUE_FREE_SPACE(cstate) > cstate.cs_qlength \div 2
        THEN SharedQueueDump(cstate, m, st)
        ELSE [cs |-> cstate, mem |-> m, rows |-> st.rows, p1 |-> 0,
              wake |-> FALSE, ret |-> FALSE, stop |-> TRUE],
        st, msg)

\* the shared state after the row is written
WriteApply(i, msg, w) ==
    /\ sq' = [sq EXCEPT !.sq_consumers[i] = w.cs]
    /\ mem' = w.mem
    /\ tuplestore' = [tuplestore EXCEPT ![i] = w.st]
    /\ cs_latch' = IF w.wake THEN [cs_latch EXCEPT ![i] = SetLatch(@)]
                   ELSE cs_latch
    /\ hist' = [hist EXCEPT
          !.written[i] = Append(@, msg),
          !.stored[i] = IF w.st.rows # << >>
                           /\ w.st.rows[Len(w.st.rows)] = msg
                        THEN @ \cup {Len(hist.written[i]) + 1} ELSE @,
          !.nwrites = @ + 1,
          !.inactive[i] = @ \/ sq.sq_consumers[i].cs_status
                                 # CONSUMER_ACTIVE]

SharedQueueWrite(p, i, len) ==
    /\ pc[p] = "producer"
    /\ i \in MapSlots(p)
    /\ cs_lwlock[i] = 0
    /\ WriteApply(i, Payload(Len(hist.written[i]) + 1, len),
                  WriteRow(sq.sq_consumers[i], mem, tuplestore[i],
                           Payload(Len(hist.written[i]) + 1, len)))
    /\ UNCHANGED <<SQueueSize, consNodes, distNodes, inHash, syncQueue,
                   SharedQueues, SQueueSyncs, SQueuesLock,
                   sqs_producer_lwlock, cs_lwlock, sqs_producer_latch,
                   pc, loc>>


\* ------------------------------------------------------- SharedQueueRead
\* take the producer lock in shared mode (line 989)
ReadCall(p, canwait) ==
    /\ pc[p] = "consumer"
    /\ ProducerLockSharable
    /\ sqs_producer_lwlock' =
           [sqs_producer_lwlock EXCEPT !.shared = @ \cup {p}]
    /\ pc' = [pc EXCEPT ![p] = "rd_cons"]
    /\ loc' = [loc EXCEPT ![p].canwait = canwait, ![p].result = "none"]
    /\ UNCHANGED <<SQueueSize, consNodes, distNodes, inHash, sq, mem, syncQueue,
                   SharedQueues, SQueueSyncs,
                   SQueuesLock, cs_lwlock, sqs_producer_latch, cs_latch,
                   tuplestore, hist>>

\* One round of the loop of sq_pull_long_tuple from "determine how many
\* bytes to read" on (lines 1919-1956): len is the length still expected.
\* Either the row is complete and SharedQueueRead returns it (1102-1111),
\* or the consumer marks LONG_TUPLE, stores the offset and goes to wait.
PullRound(p, i, cstate, len) ==
    LET n == Min(len, cstate.cs_qlength - IntSize)
        r == QUEUE_READ(cstate, mem, n)
        msg == loc[p].msg \o r.buf
        offset == loc[p].offset + n
    IN  IF offset = loc[p].datalen
        THEN /\ sq' = [sq EXCEPT !.sq_consumers[i] =
                          [r.cs EXCEPT !.cs_ntuples = @ - 1]]
             /\ mem' = mem
             /\ hist' = [hist EXCEPT !.readout[i] = Append(@, msg)]
             /\ pc' = [pc EXCEPT ![p] = "consumer"]
             /\ loc' = [loc EXCEPT ![p].result = "tuple", ![p].msg = << >>,
                                   ![p].offset = 0, ![p].datalen = 0,
                                   ![p].canwait = FALSE]
             /\ UNCHANGED <<sqs_producer_latch, cs_latch>>
        ELSE /\ sq' = [sq EXCEPT !.sq_consumers[i] =
                          [r.cs EXCEPT !.cs_ntuples = LONG_TUPLE]]
             /\ mem' = MemCopyIn(mem, cstate.cs_qstart, EncodeInt(offset))
             /\ sqs_producer_latch' = SetLatch(sqs_producer_latch)
             /\ cs_latch' = [cs_latch EXCEPT ![i] = ResetLatch(@)]
             /\ pc' = [pc EXCEPT ![p] = "pull_wait"]
             /\ loc' = [loc EXCEPT ![p].msg = msg, ![p].offset = offset]
             /\ hist' = hist

\* ReadWait without the LWLockRelease of the consumer lock
ReadWaitKeepsLock(p, i) ==
    /\ cs_latch' = [cs_latch EXCEPT ![i] = ResetLatch(@)]
    /\ cs_lwlock' = [cs_lwlock EXCEPT ![i] = p]
    /\ sqs_producer_latch' = SetLatch(sqs_producer_latch)
    /\ pc' = [pc EXCEPT ![p] = "rd_wait"]
    /\ UNCHANGED <<sq, loc>>

\* nothing to read and the caller can wait: reset the latch, release the
\* consumer lock, wake the producer (lines 1048-1062)
ReadWait(p, i) ==
    /\ cs_latch' = [cs_latch EXCEPT ![i] = ResetLatch(@)]
    /\ cs_lwlock' = [cs_lwlock EXCEPT ![i] = 0]
    /\ sqs_producer_latch' = SetLatch(sqs_producer_latch)
    /\ pc' = [pc EXCEPT ![p] = "rd_wait"]
    /\ UNCHANGED <<sq, loc>>

\* take the consumer lock and run one round of the loop (990-1111)
ReadBody(p) ==
    /\ pc[p] = "rd_cons"
    /\ cs_lwlock[loc[p].myindex] = 0
    /\ LET i == loc[p].myindex
           cstate == sq.sq_consumers[i]
       IN  IF cstate.cs_ntuples <= 0
           THEN /\ UNCHANGED <<mem, hist>>
                /\ IF cstate.cs_status = CONSUMER_EOF
                   THEN /\ sq' = [sq EXCEPT
                              !.sq_consumers[i].cs_status = CONSUMER_DONE]
                        /\ cs_latch' = [cs_latch EXCEPT
                                           ![i] = DisownLatch(@)]
                        /\ sqs_producer_latch' = SetLatch(sqs_producer_latch)
                        /\ pc' = [pc EXCEPT ![p] = "cons_done"]
                        /\ loc' = [loc EXCEPT ![p].result = "eof",
                                              ![p].canwait = FALSE]
                        /\ cs_lwlock' = cs_lwlock
                   ELSE IF cstate.cs_status = CONSUMER_ERROR
                   THEN /\ pc' = [pc EXCEPT ![p] = "failed"]
                        /\ loc' = [loc EXCEPT
                                     ![p].result = "producer_failed",
                                     ![p].canwait = FALSE]
                        /\ UNCHANGED <<sq, cs_latch, sqs_producer_latch,
                                       cs_lwlock>>
                   ELSE IF loc[p].canwait
                   THEN ReadWait(p, i)
                   ELSE /\ pc' = [pc EXCEPT ![p] = "consumer"]
                        /\ loc' = [loc EXCEPT ![p].result = "wouldblock"]
                        /\ UNCHANGED <<sq, cs_latch, sqs_producer_latch,
                                       cs_lwlock>>
           ELSE LET h == QUEUE_READ(cstate, mem, IntSize)
                    datalen == DecodeInt(h.buf)
                IN  /\ cs_lwlock' = cs_lwlock
                    /\ IF datalen > cstate.cs_qlength - IntSize
                       THEN LET n == cstate.cs_qlength - IntSize
                                r == QUEUE_READ(h.cs, mem, n)
                            IN  /\ sq' = [sq EXCEPT !.sq_consumers[i] =
                                      [r.cs EXCEPT !.cs_ntuples = LONG_TUPLE]]
                                /\ mem' = MemCopyIn(mem, cstate.cs_qstart,
                                                    EncodeInt(n))
                                /\ sqs_producer_latch' =
                                       SetLatch(sqs_producer_latch)
                                /\ cs_latch' = [cs_latch EXCEPT
                                                   ![i] = ResetLatch(@)]
                                /\ pc' = [pc EXCEPT ![p] = "pull_wait"]
                                /\ loc' = [loc EXCEPT ![p].msg = r.buf,
                                                      ![p].offset = n,
                                                      ![p].datalen = datalen]
                                /\ hist' = hist
                       ELSE LET r == QUEUE_READ(h.cs, mem, datalen)
                            IN  /\ sq' = [sq EXCEPT !.sq_consumers[i] =
                                      [r.cs EXCEPT !.cs_ntuples = @ - 1]]
                                /\ hist' = [hist EXCEPT
                                      !.readout[i] = Append(@, r.buf)]
                                /\ pc' = [pc EXCEPT ![p] = "consumer"]
                                /\ loc' = [loc EXCEPT
                                      ![p].result = "tuple",
                                      ![p].canwait = FALSE]
                                /\ UNCHANGED <<mem, cs_latch,
                                               sqs_producer_latch>>
    /\ sqs_producer_lwlock' = ReleaseProducerLock(p)
    /\ UNCHANGED <<SQueueSize, consNodes, distNodes, inHash, syncQueue,
                   SharedQueues, SQueueSyncs, SQueuesLock,
                   tuplestore>>

\* WaitLatch returned, take the producer lock again (1065-1070)
ReadWake(p) ==
    /\ pc[p] = "rd_wait"
    /\ cs_latch[loc[p].myindex].is_set
    /\ ProducerLockSharable
    /\ sqs_producer_lwlock' =
           [sqs_producer_lwlock EXCEPT !.shared = @ \cup {p}]
    /\ pc' = [pc EXCEPT ![p] = "rd_cons"]
    /\ UNCHANGED <<SQueueSize, consNodes, distNodes, inHash, sq, mem, syncQueue,
                   SharedQueues, SQueueSyncs,
                   SQueuesLock, cs_lwlock, sqs_producer_latch, cs_latch,
                   loc, tuplestore, hist>>

\* The wait of SharedQueueRead (ReadWait) instruction by instruction, for
\* the interleavings with the producer. Holding both locks the consumer
\* finds nothing to read and resets its latch (lines 993-1049)
ReadResetLatch(p) ==
    /\ pc[p] = "rd_cons"
    /\ cs_lwlock[loc[p].myindex] = 0
    /\ sq.sq_consumers[loc[p].myindex].cs_ntuples <= 0
    /\ sq.sq_consumers[loc[p].myindex].cs_status
          \notin {CONSUMER_EOF, CONSUMER_ERROR}
    /\ loc[p].canwait
    /\ cs_lwlock' = [cs_lwlock EXCEPT ![loc[p].myindex] = p]
    /\ cs_latch' = [cs_latch EXCEPT ![loc[p].myindex] = ResetLatch(@)]
    /\ pc' = [pc EXCEPT ![p] = "rd_reset"]
    /\ UNCHANGED <<SQueueSize, consNodes, distNodes, inHash, sq, mem, syncQueue,
                   SharedQueues, SQueueSyncs,
                   SQueuesLock, sqs_producer_lwlock, sqs_producer_latch,
                   loc, tuplestore, hist>>

\* ReadReleaseConsumer without the LWLockRelease
ReadReleaseConsumerKeeps(p) ==
    /\ pc[p] = "rd_reset"
    /\ pc' = [pc EXCEPT ![p] = "rd_signal"]
    /\ UNCHANGED <<SQueueSize, consNodes, distNodes, inHash, sq, mem, syncQueue,
                   SharedQueues, SQueueSyncs,
                   SQueuesLock, sqs_producer_lwlock, sqs_producer_latch,
                   cs_lwlock, cs_latch, loc, tuplestore, hist>>

\* it releases the consumer lock (line 1050)
ReadReleaseConsumer(p) ==
    /\ pc[p] = "rd_reset"
    /\ cs_lwlock' = [cs_lwlock EXCEPT ![loc[p].myindex] = 0]
    /\ pc' = [pc EXCEPT ![p] = "rd_signal"]
    /\ UNCHANGED <<SQueueSize, consNodes, distNodes, inHash, sq, mem, syncQueue,
                   SharedQueues, SQueueSyncs,
                   SQueuesLock, sqs_producer_lwlock, sqs_producer_latch,
                   cs_latch, loc, tuplestore, hist>>

\* ReadSignalProducer with the ResetLatch moved behind the release of the
\* consumer lock
ReadSignalProducerResets(p) ==
    /\ pc[p] = "rd_signal"
    /\ cs_latch' = [cs_latch EXCEPT ![loc[p].myindex] = ResetLatch(@)]
    /\ sqs_producer_latch' = SetLatch(sqs_producer_latch)
    /\ sqs_producer_lwlock' = ReleaseProducerLock(p)
    /\ pc' = [pc EXCEPT ![p] = "rd_wait"]
    /\ UNCHANGED <<SQueueSize, consNodes, distNodes, inHash, sq, mem, syncQueue,
                   SharedQueues, SQueueSyncs,
                   SQueuesLock, cs_lwlock, loc, tuplestore, hist>>

\* it wakes the producer, releases the producer lock and goes to WaitLatch
\* (lines 1059-1065)
ReadSignalProducer(p) ==
    /\ pc[p] = "rd_signal"
    /\ sqs_producer_latch' = SetLatch(sqs_producer_latch)
    /\ sqs_producer_lwlock' = ReleaseProducerLock(p)
    /\ pc' = [pc EXCEPT ![p] = "rd_wait"]
    /\ UNCHANGED <<SQueueSize, consNodes, distNodes, inHash, sq, mem, syncQueue,
                   SharedQueues, SQueueSyncs,
                   SQueuesLock, cs_lwlock, cs_latch, loc, tuplestore, hist>>

\* ---------------------------------------------------- sq_pull_long_tuple
\* WaitLatch returned, take the producer lock again (1959-1962)
PullWake(p) ==
    /\ pc[p] = "pull_wait"
    /\ cs_latch[loc[p].myindex].is_set
    /\ ProducerLockSharable
    /\ sqs_producer_lwlock' =
           [sqs_producer_lwlock EXCEPT !.shared = @ \cup {p}]
    /\ pc' = [pc EXCEPT ![p] = "pull_cons"]
    /\ UNCHANGED <<SQueueSize, consNodes, distNodes, inHash, sq, mem, syncQueue,
                   SharedQueues, SQueueSyncs,
                   SQueuesLock, cs_lwlock, sqs_producer_latch, cs_latch,
                   loc, tuplestore, hist>>

\* take the consumer lock; wait again while the producer has supplied
\* nothing, else read the remaining length and the next part (1939-1972)
PullBody(p) ==
    /\ pc[p] = "pull_cons"
    /\ cs_lwlock[loc[p].myindex] = 0
    /\ LET i == loc[p].myindex
           cstate == sq.sq_consumers[i]
       IN  IF cstate.cs_ntuples = LONG_TUPLE
           THEN /\ sqs_producer_latch' = SetLatch(sqs_producer_latch)
                /\ cs_latch' = [cs_latch EXCEPT ![i] = ResetLatch(@)]
                /\ pc' = [pc EXCEPT ![p] = "pull_wait"]
                /\ UNCHANGED <<sq, mem, loc, hist>>
           ELSE LET h == QUEUE_READ(cstate, mem, IntSize)
                IN  PullRound(p, i, h.cs, DecodeInt(h.buf))
    /\ sqs_producer_lwlock' = ReleaseProducerLock(p)
    /\ UNCHANGED <<SQueueSize, consNodes, distNodes, inHash, syncQueue,
                   SharedQueues, SQueueSyncs, SQueuesLock,
                   cs_lwlock, tuplestore>>

\* the assertion on the remaining length fails (line 1968) in a build with
\* assertions: the backend aborts with the consumer lock and the producer
\* lock released by the abort
PullAbort(p) ==
    /\ pc[p] = "pull_cons"
    /\ cs_lwlock[loc[p].myindex] = 0
    /\ sq.sq_consumers[loc[p].myindex].cs_ntuples # LONG_TUPLE
    /\ loc[p].offset
         + DecodeInt(QUEUE_READ(sq.sq_consumers[loc[p].myindex], mem,
                                IntSize).buf)
         # loc[p].datalen
    /\ sqs_producer_lwlock' = ReleaseProducerLock(p)
    /\ pc' = [pc EXCEPT ![p] = "end"]
    /\ loc' = [loc EXCEPT ![p].result = "aborted"]
    /\ UNCHANGED <<SQueueSize, consNodes, distNodes, inHash, sq, mem, syncQueue,
                   SharedQueues, SQueueSyncs,
                   SQueuesLock, cs_lwlock, sqs_producer_latch, cs_latch,
                   tuplestore, hist>>

\* ----------------------------------------------------- SharedQueueFinish
\* EOF is set although rows are left in the store
FinishDumpedEarly(d, nstores) ==
    [cs |-> [d.cs EXCEPT !.cs_status = CONSUMER_EOF], mem |-> d.mem,
     st |-> NoStore, nstores |-> nstores, wake |-> TRUE]

\* the store was dumped (lines 1441-1464)
FinishDumped(d, nstores) ==
    IF d.ret
    THEN [cs |-> [d.cs EXCEPT !.cs_status = CONSUMER_EOF], mem |-> d.mem,
          st |-> NoStore, nstores |-> nstores, wake |-> TRUE]
    ELSE [cs |-> d.cs, mem |-> d.mem,
          st |-> [exists |-> TRUE, rows |-> d.rows],
          nstores |-> nstores + 1, wake |-> TRUE]

\* FinishSlot without the test of the status when there is no store
FinishSlotAnyStatus(cstate, m, st, nstores) ==
    IF st.exists
    THEN IF cstate.cs_status # CONSUMER_ACTIVE
         THEN [cs |-> cstate, mem |-> m, st |-> NoStore,
               nstores |-> nstores, wake |-> FALSE]
         ELSE IF QUEUE_FREE_SPACE(cstate) > cstate.cs_qlength \div 2
              THEN FinishDumped(SharedQueueDump(cstate, m, st), nstores)
              ELSE [cs |-> cstate, mem |-> m, st |-> st,
                    nstores |-> nstores + 1, wake |-> FALSE]
    ELSE [cs |-> [cstate EXCEPT !.cs_status = CONSUMER_EOF], mem |-> m,
          st |-> st, nstores |-> nstores, wake |-> TRUE]

\* one consumer of the loop of SharedQueueFinish (lines 1414-1482): the
\* result is the new cstate, memory, store, count of stores and the wake
FinishSlot(cstate, m, st, nstores) ==
    IF st.exists
    THEN IF cstate.cs_status # CONSUMER_ACTIVE
         THEN [cs |-> cstate, mem |-> m, st |-> NoStore,
               nstores |-> nstores, wake |-> FALSE]
         ELSE IF QUEUE_FREE_SPACE(cstate) > cstate.cs_qlength \div 2
              THEN FinishDumped(SharedQueueDump(cstate, m, st), nstores)
              ELSE [cs |-> cstate, mem |-> m, st |-> st,
                    nstores |-> nstores + 1, wake |-> FALSE]
    ELSE IF cstate.cs_status = CONSUMER_ACTIVE
         THEN [cs |-> [cstate EXCEPT !.cs_status = CONSUMER_EOF], mem |-> m,
               st |-> st, nstores |-> nstores, wake |-> TRUE]
         ELSE [cs |-> cstate, mem |-> m, st |-> st, nstores |-> nstores,
               wake |-> FALSE]

\* the shared state after one consumer of the loop
FinishApply(p, i, f) ==
    /\ sq' = [sq EXCEPT !.sq_consumers[i] = f.cs]
    /\ mem' = f.mem
    /\ tuplestore' = [tuplestore EXCEPT ![i] = f.st]
    /\ cs_latch' = IF f.wake THEN [cs_latch EXCEPT ![i] = SetLatch(@)]
                   ELSE cs_latch
    /\ pc' = [pc EXCEPT ![p] = IF i + 1 >= sq.sq_nconsumers
                                THEN "producer" ELSE "fin"]
    /\ loc' = [loc EXCEPT
          ![p].i = IF i + 1 >= sq.sq_nconsumers THEN 0 ELSE i + 1,
          ![p].nstores = IF i + 1 >= sq.sq_nconsumers THEN 0
                         ELSE f.nstores,
          ![p].result = IF i + 1 < sq.sq_nconsumers THEN @
                        ELSE IF f.nstores = 0 THEN "finished"
                        ELSE "unfinished"]

FinishStep(p, i, nstores) ==
    /\ cs_lwlock[i] = 0
    /\ FinishApply(p, i, FinishSlot(sq.sq_consumers[i], mem, tuplestore[i],
                                    nstores))
    /\ UNCHANGED <<SQueueSize, consNodes, distNodes, inHash, syncQueue,
                   SharedQueues, SQueueSyncs, SQueuesLock,
                   sqs_producer_lwlock, cs_lwlock, sqs_producer_latch, hist>>

\* the call and its first consumer
FinishCall(p) ==
    /\ pc[p] = "producer"
    /\ sq.sq_nconsumers > 0
    /\ FinishStep(p, 0, 0)

\* the next consumers
FinishNext(p) ==
    /\ pc[p] = "fin"
    /\ FinishStep(p, loc[p].i, loc[p].nstores)


\* --------------------------------------------------- SharedQueueCanPause
\* the loop (lines 1365-1385): it ends with the first active consumer
\* whose queue is empty
RECURSIVE CanPauseLoop(_, _, _, _, _)
CanPauseLoop(q, i, result, usedspace, ncons) ==
    IF ~(result /\ i < q.sq_nconsumers)
    THEN [result |-> result, usedspace |-> usedspace, ncons |-> ncons]
    ELSE LET cstate == q.sq_consumers[i]
         IN  IF cstate.cs_status = CONSUMER_ACTIVE
             THEN CanPauseLoop(q, i + 1, cstate.cs_ntuples > 0,
                      usedspace
                      + (IF cstate.cs_qwritepos > cstate.cs_qreadpos
                         THEN cstate.cs_qwritepos - cstate.cs_qreadpos
                         ELSE cstate.cs_qlength + cstate.cs_qwritepos
                                                - cstate.cs_qreadpos),
                      ncons + 1)
             ELSE CanPauseLoop(q, i + 1, result, usedspace, ncons)

\* SharedQueueCanPause without the test of the average
SharedQueueCanPauseNoAverage(q) ==
    LET l == CanPauseLoop(q, 0, TRUE, 0, 0)
    IN  IF l.ncons = 0 THEN FALSE ELSE l.result

\* lines 1353-1399
SharedQueueCanPause(q) ==
    LET l == CanPauseLoop(q, 0, TRUE, 0, 0)
    IN  IF l.ncons = 0 THEN FALSE
        ELSE IF l.result
        THEN l.usedspace \div l.ncons > q.sq_consumers[0].cs_qlength \div 2
        ELSE FALSE

\* the producer asks whether it can pause
CanPauseCall(p) ==
    /\ pc[p] = "producer"
    /\ loc' = [loc EXCEPT ![p].result =
                  IF SharedQueueCanPause(sq) THEN "pause" ELSE "nopause"]
    /\ UNCHANGED <<SQueueSize, consNodes, distNodes, inHash, sq, mem,
                   syncQueue, SharedQueues, SQueueSyncs, SQueuesLock, sqs_producer_lwlock, cs_lwlock,
                   sqs_producer_latch, cs_latch, pc, tuplestore, hist>>

\* ----------------------------------------------------- SharedQueueUnBind
UnBindCall(p, failed) ==
    /\ pc[p] = "producer"
    /\ pc' = [pc EXCEPT ![p] = "ub_lock"]
    /\ loc' = [loc EXCEPT ![p].failed = failed]
    /\ UNCHANGED <<SQueueSize, consNodes, distNodes, inHash, sq, mem, syncQueue,
                   SharedQueues, SQueueSyncs,
                   SQueuesLock, sqs_producer_lwlock, cs_lwlock,
                   sqs_producer_latch, cs_latch, tuplestore, hist>>

\* top of the loop: take the producer lock (line 1525)
UnBindLock(p) ==
    /\ pc[p] = "ub_lock"
    /\ ProducerLockFree
    /\ sqs_producer_lwlock' = [excl |-> p, shared |-> {}]
    /\ pc' = [pc EXCEPT ![p] = "ub_scan"]
    /\ loc' = [loc EXCEPT ![p].i = 0, ![p].c_count = 0]
    /\ UNCHANGED <<SQueueSize, consNodes, distNodes, inHash, sq, mem, syncQueue,
                   SharedQueues, SQueueSyncs,
                   SQueuesLock, cs_lwlock, sqs_producer_latch, cs_latch,
                   tuplestore, hist>>

\* UnBindScan putting every consumer that is not done in error
UnBindScanAnyStatus(p) ==
    /\ pc[p] = "ub_scan"
    /\ cs_lwlock[loc[p].i] = 0
    /\ LET i == loc[p].i
           cstate == sq.sq_consumers[i]
           toError == cstate.cs_status # CONSUMER_DONE /\ loc[p].failed
           pending == ~toError /\ cstate.cs_status # CONSUMER_DONE
                      /\ ~loc[p].failed
           c_count == loc[p].c_count + (IF pending THEN 1 ELSE 0)
           last == i + 1 >= sq.sq_nconsumers
       IN  /\ sq' = IF toError
                    THEN [sq EXCEPT
                            !.sq_consumers[i].cs_status = CONSUMER_ERROR]
                    ELSE sq
           /\ cs_latch' = IF pending
                          THEN [cs_latch EXCEPT ![i] = SetLatch(@)]
                          ELSE cs_latch
           /\ sqs_producer_latch' = IF pending
                                    THEN ResetLatch(sqs_producer_latch)
                                    ELSE sqs_producer_latch
           /\ sqs_producer_lwlock' = IF last THEN ReleaseProducerLock(p)
                                     ELSE sqs_producer_lwlock
           /\ pc' = [pc EXCEPT ![p] =
                        IF ~last THEN "ub_scan"
                        ELSE IF c_count = 0 THEN "ub_final_reg"
                        ELSE "ub_wait"]
           /\ loc' = [loc EXCEPT ![p].i = IF last THEN 0 ELSE i + 1,
                                 ![p].c_count = IF last THEN 0 ELSE c_count]
    /\ UNCHANGED <<SQueueSize, consNodes, distNodes, inHash, mem, syncQueue,
                   SharedQueues, SQueueSyncs, SQueuesLock,
                   cs_lwlock, tuplestore, hist>>

\* check one consumer under its lock; after the last one release the
\* producer lock and either leave the loop or wait (1527-1565)
UnBindScan(p) ==
    /\ pc[p] = "ub_scan"
    /\ cs_lwlock[loc[p].i] = 0
    /\ LET i == loc[p].i
           cstate == sq.sq_consumers[i]
           toError == cstate.cs_status = CONSUMER_ACTIVE /\ loc[p].failed
           pending == ~toError /\ cstate.cs_status # CONSUMER_DONE
                      /\ ~loc[p].failed
           c_count == loc[p].c_count + (IF pending THEN 1 ELSE 0)
           last == i + 1 >= sq.sq_nconsumers
       IN  /\ sq' = IF toError
                    THEN [sq EXCEPT
                            !.sq_consumers[i].cs_status = CONSUMER_ERROR]
                    ELSE sq
           /\ cs_latch' = IF pending
                          THEN [cs_latch EXCEPT ![i] = SetLatch(@)]
                          ELSE cs_latch
           /\ sqs_producer_latch' = IF pending
                                    THEN ResetLatch(sqs_producer_latch)
                                    ELSE sqs_producer_latch
           /\ sqs_producer_lwlock' = IF last THEN ReleaseProducerLock(p)
                                     ELSE sqs_producer_lwlock
           /\ pc' = [pc EXCEPT ![p] =
                        IF ~last THEN "ub_scan"
                        ELSE IF c_count = 0 THEN "ub_final_reg"
                        ELSE "ub_wait"]
           /\ loc' = [loc EXCEPT ![p].i = IF last THEN 0 ELSE i + 1,
                                 ![p].c_count = IF last THEN 0 ELSE c_count]
    /\ UNCHANGED <<SQueueSize, consNodes, distNodes, inHash, mem, syncQueue,
                   SharedQueues, SQueueSyncs, SQueuesLock,
                   cs_lwlock, tuplestore, hist>>

\* UnBindWake leaving the loop instead of checking the consumers again
UnBindWakeBreaks(p) ==
    /\ pc[p] = "ub_wait"
    /\ sqs_producer_latch.is_set
    /\ pc' = [pc EXCEPT ![p] = "ub_final_reg"]
    /\ UNCHANGED <<SQueueSize, consNodes, distNodes, inHash, sq, mem, syncQueue,
                   SharedQueues, SQueueSyncs,
                   SQueuesLock, sqs_producer_lwlock, cs_lwlock,
                   sqs_producer_latch, cs_latch, loc, tuplestore, hist>>

\* WaitLatch returned because the producer latch is set (1569-1571)
UnBindWake(p) ==
    /\ pc[p] = "ub_wait"
    /\ sqs_producer_latch.is_set
    /\ pc' = [pc EXCEPT ![p] = "ub_lock"]
    /\ UNCHANGED <<SQueueSize, consNodes, distNodes, inHash, sq, mem, syncQueue,
                   SharedQueues, SQueueSyncs,
                   SQueuesLock, sqs_producer_lwlock, cs_lwlock,
                   sqs_producer_latch, cs_latch, loc, tuplestore, hist>>

\* UnBindTimeout without the call of SharedQueueResetNotConnected
UnBindTimeoutNoReset(p) ==
    /\ pc[p] = "ub_wait"
    /\ ~sqs_producer_latch.is_set
    /\ pc' = [pc EXCEPT ![p] = "ub_lock"]
    /\ UNCHANGED <<SQueueSize, consNodes, distNodes, inHash, sq, mem, syncQueue,
                   SharedQueues, SQueueSyncs,
                   SQueuesLock, sqs_producer_lwlock, cs_lwlock,
                   sqs_producer_latch, cs_latch, loc, tuplestore, hist>>

\* WaitLatch timed out: reset the consumers not yet connected (1583-1584)
UnBindTimeout(p) ==
    /\ pc[p] = "ub_wait"
    /\ ~sqs_producer_latch.is_set
    /\ pc' = [pc EXCEPT ![p] = "rnc_prod"]
    /\ loc' = [loc EXCEPT ![p].ret = "ub_lock"]
    /\ UNCHANGED <<SQueueSize, consNodes, distNodes, inHash, sq, mem, syncQueue,
                   SharedQueues, SQueueSyncs,
                   SQueuesLock, sqs_producer_lwlock, cs_lwlock,
                   sqs_producer_latch, cs_latch, tuplestore, hist>>

\* UnBindFinalReg taking the two locks in the opposite order
UnBindFinalRegInverted(p) ==
    /\ pc[p] = "ub_final_reg"
    /\ IF ~HoldsProducerLock(p)
       THEN /\ ProducerLockFree
            /\ sqs_producer_lwlock' = [excl |-> p, shared |-> {}]
            /\ UNCHANGED <<SQueuesLock, pc, loc>>
       ELSE /\ SQueuesLock = 0
            /\ SQueuesLock' = p
            /\ pc' = [pc EXCEPT ![p] = "ub_final_scan"]
            /\ loc' = [loc EXCEPT ![p].i = 0, ![p].running = 0]
            /\ UNCHANGED sqs_producer_lwlock
    /\ UNCHANGED <<SQueueSize, consNodes, distNodes, inHash, sq, mem, syncQueue,
                   SharedQueues, SQueueSyncs,
                   cs_lwlock, sqs_producer_latch, cs_latch, tuplestore, hist>>

\* leaving the loop: take SQueuesLock (line 1592)
UnBindFinalReg(p) ==
    /\ pc[p] = "ub_final_reg"
    /\ SQueuesLock = 0
    /\ SQueuesLock' = p
    /\ pc' = [pc EXCEPT ![p] = "ub_final_prod"]
    /\ UNCHANGED <<SQueueSize, consNodes, distNodes, inHash, sq, mem, syncQueue,
                   SharedQueues, SQueueSyncs,
                   sqs_producer_lwlock, cs_lwlock, sqs_producer_latch,
                   cs_latch, loc, tuplestore, hist>>

\* then the producer lock (line 1593)
UnBindFinalProd(p) ==
    /\ pc[p] = "ub_final_prod"
    /\ ProducerLockFree
    /\ sqs_producer_lwlock' = [excl |-> p, shared |-> {}]
    /\ pc' = [pc EXCEPT ![p] = "ub_final_scan"]
    /\ loc' = [loc EXCEPT ![p].i = 0, ![p].running = 0]
    /\ UNCHANGED <<SQueueSize, consNodes, distNodes, inHash, sq, mem, syncQueue,
                   SharedQueues, SQueueSyncs,
                   SQueuesLock, cs_lwlock, sqs_producer_latch, cs_latch,
                   tuplestore, hist>>

\* recheck one consumer; after the last one go back to CHECK or clean up:
\* disown the latch, decrement sq_refcnt, remove the entry (1600-1642)
UnBindFinalScan(p) ==
    /\ pc[p] = "ub_final_scan"
    /\ cs_lwlock[loc[p].i] = 0
    /\ LET i == loc[p].i
           cstate == sq.sq_consumers[i]
           running == loc[p].running
                      + (IF cstate.cs_status = CONSUMER_ACTIVE
                            /\ cstate.cs_pid # 0 THEN 1 ELSE 0)
           last == i + 1 >= sq.sq_nconsumers
       IN  IF ~last
           THEN /\ pc' = pc
                /\ loc' = [loc EXCEPT ![p].i = i + 1, ![p].running = running]
                /\ UNCHANGED <<inHash, sq, syncQueue,
                               SharedQueues, SQueueSyncs, SQueuesLock,
                               sqs_producer_lwlock, sqs_producer_latch>>
           ELSE IF running > 0
           THEN /\ pc' = [pc EXCEPT ![p] = "ub_lock"]
                /\ loc' = [loc EXCEPT ![p].i = 0, ![p].running = 0]
                /\ sqs_producer_lwlock' = ReleaseProducerLock(p)
                /\ SQueuesLock' = 0
                /\ UNCHANGED <<inHash, sq, syncQueue,
                               SharedQueues, SQueueSyncs, sqs_producer_latch>>
           ELSE /\ sqs_producer_latch' = DisownLatch(sqs_producer_latch)
                /\ IF sq.sq_refcnt - 1 = 0
                   THEN /\ sq' = [sq EXCEPT !.sq_refcnt = 0,
                                            !.sq_sync = FALSE]
                        /\ syncQueue' = FALSE
                        /\ UNCHANGED <<SharedQueues, SQueueSyncs>>
                        /\ inHash' = FALSE
                   ELSE /\ sq' = [sq EXCEPT !.sq_refcnt = @ - 1]
                        /\ UNCHANGED <<syncQueue,
                                       SharedQueues, SQueueSyncs, inHash>>
                /\ sqs_producer_lwlock' = ReleaseProducerLock(p)
                /\ SQueuesLock' = 0
                /\ pc' = [pc EXCEPT ![p] = "unbound"]
                /\ loc' = [loc EXCEPT ![p].i = 0, ![p].running = 0,
                                      ![p].failed = FALSE,
                                      ![p].result = "none"]
    /\ UNCHANGED <<SQueueSize, consNodes, distNodes, mem, cs_lwlock, cs_latch,
                   tuplestore, hist>>

\* ------------------------------------------ SharedQueueResetNotConnected
\* called by the producer between its other calls
ResetNotConnectedCall(p) ==
    /\ pc[p] = "producer"
    /\ pc' = [pc EXCEPT ![p] = "rnc_prod"]
    /\ loc' = [loc EXCEPT ![p].ret = "producer"]
    /\ UNCHANGED <<SQueueSize, consNodes, distNodes, inHash, sq, mem, syncQueue,
                   SharedQueues, SQueueSyncs,
                   SQueuesLock, sqs_producer_lwlock, cs_lwlock,
                   sqs_producer_latch, cs_latch, tuplestore, hist>>

\* line 1302
ResetNotConnectedLock(p) ==
    /\ pc[p] = "rnc_prod"
    /\ ProducerLockFree
    /\ sqs_producer_lwlock' = [excl |-> p, shared |-> {}]
    /\ pc' = [pc EXCEPT ![p] = "rnc_scan"]
    /\ loc' = [loc EXCEPT ![p].i = 0]
    /\ UNCHANGED <<SQueueSize, consNodes, distNodes, inHash, sq, mem, syncQueue,
                   SharedQueues, SQueueSyncs,
                   SQueuesLock, cs_lwlock, sqs_producer_latch, cs_latch,
                   tuplestore, hist>>

\* ResetNotConnectedScan without the test of cs_pid
ResetNotConnectedScanAll(p) ==
    /\ pc[p] = "rnc_scan"
    /\ cs_lwlock[loc[p].i] = 0
    /\ LET i == loc[p].i
           cstate == sq.sq_consumers[i]
           hit == cstate.cs_status # CONSUMER_DONE
           last == i + 1 >= sq.sq_nconsumers
       IN  /\ sq' = IF hit
                    THEN [sq EXCEPT !.sq_consumers[i] =
                            [cstate EXCEPT !.cs_status = CONSUMER_DONE,
                                           !.cs_ntuples = 0,
                                           !.cs_qreadpos = 0,
                                           !.cs_qwritepos = 0]]
                    ELSE sq
           /\ cs_latch' = IF hit THEN [cs_latch EXCEPT ![i] = SetLatch(@)]
                          ELSE cs_latch
           /\ sqs_producer_lwlock' = IF last THEN ReleaseProducerLock(p)
                                     ELSE sqs_producer_lwlock
           /\ pc' = [pc EXCEPT ![p] = IF last THEN loc[p].ret ELSE "rnc_scan"]
           /\ loc' = [loc EXCEPT ![p].i = IF last THEN 0 ELSE i + 1,
                                 ![p].ret = IF last THEN "none" ELSE @]
    /\ UNCHANGED <<SQueueSize, consNodes, distNodes, inHash, mem, syncQueue,
                   SharedQueues, SQueueSyncs, SQueuesLock,
                   cs_lwlock, sqs_producer_latch, tuplestore, hist>>

\* one consumer of the loop (lines 1305-1329)
ResetNotConnectedScan(p) ==
    /\ pc[p] = "rnc_scan"
    /\ cs_lwlock[loc[p].i] = 0
    /\ LET i == loc[p].i
           cstate == sq.sq_consumers[i]
           hit == cstate.cs_pid = 0 /\ cstate.cs_status # CONSUMER_DONE
           last == i + 1 >= sq.sq_nconsumers
       IN  /\ sq' = IF hit
                    THEN [sq EXCEPT !.sq_consumers[i] =
                            [cstate EXCEPT !.cs_status = CONSUMER_DONE,
                                           !.cs_ntuples = 0,
                                           !.cs_qreadpos = 0,
                                           !.cs_qwritepos = 0]]
                    ELSE sq
           /\ cs_latch' = IF hit THEN [cs_latch EXCEPT ![i] = SetLatch(@)]
                          ELSE cs_latch
           /\ sqs_producer_lwlock' = IF last THEN ReleaseProducerLock(p)
                                     ELSE sqs_producer_lwlock
           /\ pc' = [pc EXCEPT ![p] = IF last THEN loc[p].ret ELSE "rnc_scan"]
           /\ loc' = [loc EXCEPT ![p].i = IF last THEN 0 ELSE i + 1,
                                 ![p].ret = IF last THEN "none" ELSE @]
    /\ UNCHANGED <<SQueueSize, consNodes, distNodes, inHash, mem, syncQueue,
                   SharedQueues, SQueueSyncs, SQueuesLock,
                   cs_lwlock, sqs_producer_latch, tuplestore, hist>>


\* ------------------------------------------------------ SharedQueueReset
\* the producer resets all consumers (consumerIdx -1), a consumer its own
\* queue; take the producer lock in shared mode (lines 1126-1135)
ResetCall(p) ==
    /\ pc[p] \in {"producer", "consumer"}
    /\ IF ~sq.sq_sync
       THEN UNCHANGED <<sqs_producer_lwlock, pc, loc>>
       ELSE /\ ProducerLockSharable
            /\ sqs_producer_lwlock' =
                   [sqs_producer_lwlock EXCEPT !.shared = @ \cup {p}]
            /\ pc' = [pc EXCEPT ![p] = "rs_scan"]
            /\ loc' = [loc EXCEPT
                  ![p].idx = IF pc[p] = "producer" THEN -1
                             ELSE loc[p].myindex,
                  ![p].i = IF pc[p] = "producer" THEN 0 ELSE loc[p].myindex,
                  ![p].ret = IF pc[p] = "producer" THEN "producer"
                             ELSE "cons_done"]
    /\ UNCHANGED <<SQueueSize, consNodes, distNodes, inHash, sq, mem, syncQueue,
                   SharedQueues, SQueueSyncs,
                   SQueuesLock, cs_lwlock, sqs_producer_latch, cs_latch,
                   tuplestore, hist>>

\* ResetScan of a producer that puts a consumer that is done in error
ResetScanDone(p) ==
    /\ pc[p] = "rs_scan"
    /\ cs_lwlock[loc[p].i] = 0
    /\ LET i == loc[p].i
           cstate == sq.sq_consumers[i]
           all == loc[p].idx = -1
           toError == all /\ cstate.cs_status # CONSUMER_EOF
           toDone == ~all /\ cstate.cs_status # CONSUMER_DONE
           last == ~all \/ i + 1 >= sq.sq_nconsumers
       IN  /\ sq' = IF toError
                    THEN [sq EXCEPT !.sq_consumers[i] =
                            [cstate EXCEPT !.cs_status = CONSUMER_ERROR,
                                           !.cs_ntuples = 0,
                                           !.cs_qreadpos = 0,
                                           !.cs_qwritepos = 0]]
                    ELSE IF toDone
                    THEN [sq EXCEPT
                            !.sq_consumers[i].cs_status = CONSUMER_DONE]
                    ELSE sq
           /\ cs_latch' = IF toError
                          THEN [cs_latch EXCEPT ![i] = SetLatch(@)]
                          ELSE IF toDone /\ cstate.cs_pid > 0
                          THEN [cs_latch EXCEPT ![i] = DisownLatch(@)]
                          ELSE cs_latch
           /\ sqs_producer_latch' = IF toError \/ toDone
                                    THEN SetLatch(sqs_producer_latch)
                                    ELSE sqs_producer_latch
           /\ sqs_producer_lwlock' = IF last THEN ReleaseProducerLock(p)
                                     ELSE sqs_producer_lwlock
           /\ pc' = [pc EXCEPT ![p] = IF last THEN loc[p].ret ELSE "rs_scan"]
           /\ loc' = [loc EXCEPT ![p].i = IF last THEN 0 ELSE i + 1,
                                 ![p].idx = IF last THEN 0 ELSE @,
                                 ![p].ret = IF last THEN "none" ELSE @]
    /\ UNCHANGED <<SQueueSize, consNodes, distNodes, inHash, mem, syncQueue,
                   SharedQueues, SQueueSyncs, SQueuesLock,
                   cs_lwlock, tuplestore, hist>>

\* one consumer under its lock (lines 1146-1217)
ResetScan(p) ==
    /\ pc[p] = "rs_scan"
    /\ cs_lwlock[loc[p].i] = 0
    /\ LET i == loc[p].i
           cstate == sq.sq_consumers[i]
           all == loc[p].idx = -1
           toError == all /\ cstate.cs_status # CONSUMER_EOF
                          /\ cstate.cs_status # CONSUMER_DONE
           toDone == ~all /\ cstate.cs_status # CONSUMER_DONE
           last == ~all \/ i + 1 >= sq.sq_nconsumers
       IN  /\ sq' = IF toError
                    THEN [sq EXCEPT !.sq_consumers[i] =
                            [cstate EXCEPT !.cs_status = CONSUMER_ERROR,
                                           !.cs_ntuples = 0,
                                           !.cs_qreadpos = 0,
                                           !.cs_qwritepos = 0]]
                    ELSE IF toDone
                    THEN [sq EXCEPT
                            !.sq_consumers[i].cs_status = CONSUMER_DONE]
                    ELSE sq
           /\ cs_latch' = IF toError
                          THEN [cs_latch EXCEPT ![i] = SetLatch(@)]
                          ELSE IF toDone /\ cstate.cs_pid > 0
                          THEN [cs_latch EXCEPT ![i] = DisownLatch(@)]
                          ELSE cs_latch
           /\ sqs_producer_latch' = IF toError \/ toDone
                                    THEN SetLatch(sqs_producer_latch)
                                    ELSE sqs_producer_latch
           /\ sqs_producer_lwlock' = IF last THEN ReleaseProducerLock(p)
                                     ELSE sqs_producer_lwlock
           /\ pc' = [pc EXCEPT ![p] = IF last THEN loc[p].ret ELSE "rs_scan"]
           /\ loc' = [loc EXCEPT ![p].i = IF last THEN 0 ELSE i + 1,
                                 ![p].idx = IF last THEN 0 ELSE @,
                                 ![p].ret = IF last THEN "none" ELSE @]
    /\ UNCHANGED <<SQueueSize, consNodes, distNodes, inHash, mem, syncQueue,
                   SharedQueues, SQueueSyncs, SQueuesLock,
                   cs_lwlock, tuplestore, hist>>

\* ----------------------------------------- SharedQueueDisconnectConsumer
\* DisconnectCall without the test of sq_pid
DisconnectCallAnyQueue(p) ==
    /\ pc[p] = "acquired"
    /\ SQueuesLock = 0
    /\ inHash
    /\ SQueuesLock' = p
    /\ pc' = [pc EXCEPT ![p] = "dc_prod"]
    /\ UNCHANGED <<SQueueSize, consNodes, distNodes, inHash, sq, mem, syncQueue,
                   SharedQueues, SQueueSyncs,
                   sqs_producer_lwlock, cs_lwlock, sqs_producer_latch,
                   cs_latch, loc, tuplestore, hist>>

\* called by a session that has not bound (lines 1244-1260)
DisconnectCall(p) ==
    /\ pc[p] = "acquired"
    /\ SQueuesLock = 0
    /\ inHash /\ sq.sq_pid # 0
    /\ SQueuesLock' = p
    /\ pc' = [pc EXCEPT ![p] = "dc_prod"]
    /\ UNCHANGED <<SQueueSize, consNodes, distNodes, inHash, sq, mem, syncQueue,
                   SharedQueues, SQueueSyncs,
                   sqs_producer_lwlock, cs_lwlock, sqs_producer_latch,
                   cs_latch, loc, tuplestore, hist>>

\* lines 1264-1265
DisconnectProd(p) ==
    /\ pc[p] = "dc_prod"
    /\ ProducerLockFree
    /\ sqs_producer_lwlock' = [excl |-> p, shared |-> {}]
    /\ SQueuesLock' = 0
    /\ pc' = [pc EXCEPT ![p] = "dc_scan"]
    /\ loc' = [loc EXCEPT ![p].i = 0]
    /\ UNCHANGED <<SQueueSize, consNodes, distNodes, inHash, sq, mem, syncQueue,
                   SharedQueues, SQueueSyncs,
                   cs_lwlock, sqs_producer_latch, cs_latch, tuplestore, hist>>

\* one consumer of the loop, then the latch (lines 1268-1284)
DisconnectScan(p) ==
    /\ pc[p] = "dc_scan"
    /\ cs_lwlock[loc[p].i] = 0
    /\ LET i == loc[p].i
           cstate == sq.sq_consumers[i]
           last == i + 1 >= sq.sq_nconsumers
       IN  /\ sq' = IF cstate.cs_node = p
                    THEN [sq EXCEPT !.sq_consumers[i] =
                            [cstate EXCEPT !.cs_status = CONSUMER_DONE,
                                           !.cs_ntuples = 0,
                                           !.cs_qreadpos = 0,
                                           !.cs_qwritepos = 0]]
                    ELSE sq
           /\ sqs_producer_latch' = IF last THEN SetLatch(sqs_producer_latch)
                                    ELSE sqs_producer_latch
           /\ sqs_producer_lwlock' = IF last THEN ReleaseProducerLock(p)
                                     ELSE sqs_producer_lwlock
           /\ pc' = [pc EXCEPT ![p] = IF last THEN "acquired" ELSE "dc_scan"]
           /\ loc' = [loc EXCEPT ![p].i = IF last THEN 0 ELSE i + 1]
    /\ UNCHANGED <<SQueueSize, consNodes, distNodes, inHash, mem, syncQueue,
                   SharedQueues, SQueueSyncs, SQueuesLock,
                   cs_lwlock, cs_latch, tuplestore, hist>>

\* ---------------------------------------------------- SharedQueueRelease
\* ReleaseDone without the decrement of sq_refcnt
ReleaseDoneKeepsCount(p, sq1) ==
    /\ sq' = sq1
    /\ UNCHANGED <<syncQueue, SharedQueues, SQueueSyncs, inHash>>
    /\ SQueuesLock' = 0
    /\ pc' = [pc EXCEPT ![p] = "end"]
    /\ loc' = [loc EXCEPT ![p] = Loc0]

\* label done: the last holder removes the entry (lines 1779-1792)
ReleaseDone(p, sq1) ==
    /\ IF sq1.sq_refcnt - 1 = 0
       THEN /\ sq' = [sq1 EXCEPT !.sq_refcnt = 0, !.sq_sync = FALSE]
            /\ syncQueue' = FALSE
            /\ UNCHANGED <<SharedQueues, SQueueSyncs>>
            /\ inHash' = FALSE
       ELSE /\ sq' = [sq1 EXCEPT !.sq_refcnt = @ - 1]
            /\ UNCHANGED <<syncQueue, SharedQueues, SQueueSyncs, inHash>>
    /\ SQueuesLock' = 0
    /\ pc' = [pc EXCEPT ![p] = "end"]
    /\ loc' = [loc EXCEPT ![p] = Loc0]

\* take SQueuesLock and look the queue up (lines 1657-1660)
ReleaseCall(p) ==
    /\ pc[p] \in {"acquired", "consumer", "cons_done", "failed", "unbound"}
    /\ SQueuesLock = 0
    /\ IF inHash
       THEN /\ SQueuesLock' = p
            /\ pc' = [pc EXCEPT ![p] = "rel_prod"]
            /\ loc' = loc
       ELSE /\ SQueuesLock' = 0
            /\ pc' = [pc EXCEPT ![p] = "end"]
            /\ loc' = [loc EXCEPT ![p] = Loc0]
    /\ UNCHANGED <<SQueueSize, consNodes, distNodes, inHash, sq, mem, syncQueue,
                   SharedQueues, SQueueSyncs,
                   sqs_producer_lwlock, cs_lwlock, sqs_producer_latch,
                   cs_latch, tuplestore, hist>>

\* take the producer lock and find what to release (lines 1670-1700,
\* 1754-1766)
ReleaseProd(p) ==
    /\ pc[p] = "rel_prod"
    /\ ProducerLockFree
    /\ IF sq.sq_nodeid # NoNode /\ sq.sq_nodeid # p
          /\ SlotsOfNode(p) # {}
       THEN /\ sqs_producer_lwlock' = [excl |-> p, shared |-> {}]
            /\ pc' = [pc EXCEPT ![p] = "rel_cons"]
            /\ loc' = [loc EXCEPT ![p].i = FirstOf(SlotsOfNode(p))]
            /\ UNCHANGED <<inHash, sq, syncQueue,
                           SharedQueues, SQueueSyncs, SQueuesLock>>
       ELSE IF sq.sq_nodeid # NoNode /\ sq.sq_nodeid # p
               /\ SlotsOfNode(NoNode) # {}
       THEN /\ sqs_producer_lwlock' = [excl |-> p, shared |-> {}]
            /\ pc' = [pc EXCEPT ![p] = "rel_never"]
            /\ loc' = [loc EXCEPT ![p].i = FirstOf(SlotsOfNode(NoNode))]
            /\ UNCHANGED <<inHash, sq, syncQueue,
                           SharedQueues, SQueueSyncs, SQueuesLock>>
       ELSE /\ sqs_producer_lwlock' = sqs_producer_lwlock
            /\ ReleaseDone(p, sq)
    /\ UNCHANGED <<SQueueSize, consNodes, distNodes, mem, cs_lwlock, sqs_producer_latch,
                   cs_latch, tuplestore, hist>>

\* ReleaseCons without DisownLatch and the reset of cs_pid
ReleaseConsKeepsLatch(p) ==
    /\ pc[p] = "rel_cons"
    /\ cs_lwlock[loc[p].i] = 0
    /\ LET i == loc[p].i
           cstate == sq.sq_consumers[i]
           mark == cstate.cs_pid # 0 /\ cstate.cs_status # CONSUMER_DONE
           disown == FALSE
       IN  /\ cs_latch' = IF disown
                          THEN [cs_latch EXCEPT ![i] = DisownLatch(@)]
                          ELSE cs_latch
           /\ sqs_producer_latch' = IF mark THEN SetLatch(sqs_producer_latch)
                                    ELSE sqs_producer_latch
           /\ ReleaseDone(p,
                 IF mark
                 THEN [sq EXCEPT !.sq_consumers[i] =
                         [cstate EXCEPT !.cs_status = CONSUMER_DONE,
                                        !.cs_pid = IF disown THEN 0 ELSE @]]
                 ELSE sq)
    /\ sqs_producer_lwlock' = ReleaseProducerLock(p)
    /\ UNCHANGED <<SQueueSize, consNodes, distNodes, mem, cs_lwlock, tuplestore, hist>>

\* ReleaseCons without the test of cs_pid
ReleaseConsAnyPid(p) ==
    /\ pc[p] = "rel_cons"
    /\ cs_lwlock[loc[p].i] = 0
    /\ LET i == loc[p].i
           cstate == sq.sq_consumers[i]
           mark == cstate.cs_status # CONSUMER_DONE
           disown == mark /\ cstate.cs_pid > 0
       IN  /\ cs_latch' = IF disown
                          THEN [cs_latch EXCEPT ![i] = DisownLatch(@)]
                          ELSE cs_latch
           /\ sqs_producer_latch' = IF mark THEN SetLatch(sqs_producer_latch)
                                    ELSE sqs_producer_latch
           /\ ReleaseDone(p,
                 IF mark
                 THEN [sq EXCEPT !.sq_consumers[i] =
                         [cstate EXCEPT !.cs_status = CONSUMER_DONE,
                                        !.cs_pid = IF disown THEN 0 ELSE @]]
                 ELSE sq)
    /\ sqs_producer_lwlock' = ReleaseProducerLock(p)
    /\ UNCHANGED <<SQueueSize, consNodes, distNodes, mem, cs_lwlock, tuplestore, hist>>

\* the caller's consumer is marked done under its lock (1699-1750)
ReleaseCons(p) ==
    /\ pc[p] = "rel_cons"
    /\ cs_lwlock[loc[p].i] = 0
    /\ LET i == loc[p].i
           cstate == sq.sq_consumers[i]
           mark == cstate.cs_pid # 0 /\ cstate.cs_status # CONSUMER_DONE
           disown == mark /\ cstate.cs_pid > 0
       IN  /\ cs_latch' = IF disown
                          THEN [cs_latch EXCEPT ![i] = DisownLatch(@)]
                          ELSE cs_latch
           /\ sqs_producer_latch' = IF mark THEN SetLatch(sqs_producer_latch)
                                    ELSE sqs_producer_latch
           /\ ReleaseDone(p,
                 IF mark
                 THEN [sq EXCEPT !.sq_consumers[i] =
                         [cstate EXCEPT !.cs_status = CONSUMER_DONE,
                                        !.cs_pid = IF disown THEN 0 ELSE @]]
                 ELSE sq)
    /\ sqs_producer_lwlock' = ReleaseProducerLock(p)
    /\ UNCHANGED <<SQueueSize, consNodes, distNodes, mem, cs_lwlock, tuplestore, hist>>

\* the consumer was never bound: every empty consumer slot is marked done
\* (lines 1761-1777)
ReleaseNever(p) ==
    /\ pc[p] = "rel_never"
    /\ cs_lwlock[loc[p].i] = 0
    /\ LET i == loc[p].i
           sq1 == [sq EXCEPT !.sq_consumers[i].cs_status = CONSUMER_DONE]
           rest == {j \in SlotsOfNode(NoNode) : j > i}
       IN  /\ sqs_producer_latch' = SetLatch(sqs_producer_latch)
           /\ IF rest # {}
              THEN /\ sq' = sq1
                   /\ loc' = [loc EXCEPT ![p].i = FirstOf(rest)]
                   /\ UNCHANGED <<inHash, syncQueue,
                                  SharedQueues, SQueueSyncs, SQueuesLock, pc,
                                  sqs_producer_lwlock>>
              ELSE /\ sqs_producer_lwlock' = ReleaseProducerLock(p)
                   /\ ReleaseDone(p, sq1)
    /\ UNCHANGED <<SQueueSize, consNodes, distNodes, mem, cs_lwlock, cs_latch,
                   tuplestore, hist>>


\* ------------------------------------------------------- specifications
\* The life of one queue: three sessions acquire it, bind to it, finish,
\* reset, unbind, disconnect and release in any order the guards allow.
\* The rows are left to SpecData: SharedQueueWrite takes one consumer lock
\* and nothing else, and no row is needed to run the other operations.
Next ==
    \E p \in Procs :
        \/ AcquireLock(p)
        \/ AcquireCheck(p)
        \/ AcquireWakeup(p)
        \/ BindCall(p)
        \/ BindProd(p)
        \/ BindMap(p)
        \/ BindRefcnt(p)
        \/ BindCons(p)
        \/ ReadCall(p, TRUE)
        \/ ReadBody(p)
        \/ ReadWake(p)
        \/ FinishCall(p)
        \/ FinishNext(p)
        \/ \E failed \in BOOLEAN : UnBindCall(p, failed)
        \/ UnBindLock(p)
        \/ UnBindScan(p)
        \/ UnBindWake(p)
        \/ UnBindTimeout(p)
        \/ UnBindFinalReg(p)
        \/ UnBindFinalProd(p)
        \/ UnBindFinalScan(p)
        \/ ResetNotConnectedCall(p)
        \/ ResetNotConnectedLock(p)
        \/ ResetNotConnectedScan(p)
        \/ ResetCall(p)
        \/ ResetScan(p)
        \/ DisconnectCall(p)
        \/ DisconnectProd(p)
        \/ DisconnectScan(p)
        \/ ReleaseCall(p)
        \/ ReleaseProd(p)
        \/ ReleaseCons(p)

Spec == Init /\ [][Next]_vars

\* The data path of one queue with one consumer: session 1 has bound as the
\* producer and session 2 as the consumer of queue 0, both after
\* SharedQueueAcquire; session 3 takes no part.
InitData ==
    /\ SQueueSize = DataQueueSize
    /\ consNodes = <<1, 2>>
    /\ distNodes = <<1, 2>>
    /\ inHash = TRUE
    /\ sq = [FormatSQueue(BlankQueue, 1, DataQueueSize, TRUE) EXCEPT
               !.sq_pid = 1, !.sq_nodeid = 1, !.sq_refcnt = 3,
               !.sq_consumers[0].cs_node = 2,
               !.sq_consumers[0].cs_pid = 2]
    /\ mem = [a \in 0..(SQueueSize - 1) |-> 0]
    /\ syncQueue = TRUE
    /\ SharedQueues = NoQueues
    /\ SQueueSyncs = [b \in 1..NUM_SQUEUES |-> 0]
    /\ SQueuesLock = 0
    /\ sqs_producer_lwlock = FreeProducerLock
    /\ cs_lwlock = [i \in SlotIds |-> 0]
    /\ sqs_producer_latch = [is_set |-> FALSE, owner_pid |-> 1]
    /\ cs_latch = [i \in SlotIds |->
                     IF i = 0 THEN [is_set |-> FALSE, owner_pid |-> 2]
                     ELSE FreeLatch]
    /\ pc = [p \in Procs |-> IF p = 1 THEN "producer"
                             ELSE IF p = 2 THEN "consumer" ELSE "end"]
    /\ loc = [p \in Procs |->
                IF p = 1
                THEN [Loc0 EXCEPT !.consMap = <<SQ_CONS_SELF, 0>>]
                ELSE IF p = 2
                THEN [Loc0 EXCEPT !.myindex = 0]
                ELSE Loc0]
    /\ tuplestore = [i \in SlotIds |-> NoStore]
    /\ hist = [Hist0 EXCEPT !.bound = {1, 2}]

NextData ==
    \E p \in Procs :
        \/ /\ hist.nwrites < MaxWrites
           /\ \E i \in SlotIds, len \in DataLens :
                  SharedQueueWrite(p, i, len)
        \/ \E canwait \in BOOLEAN : ReadCall(p, canwait)
        \/ ReadBody(p)
        \/ ReadWake(p)
        \/ PullWake(p)
        \/ PullBody(p)
        \/ FinishCall(p)

SpecData == InitData /\ [][NextData]_vars


\* ------------------------------------------------------------ properties
IsPrefix(s, t) == Len(s) <= Len(t) /\ SubSeq(t, 1, Len(s)) = s

\* the consumer session of queue i
ConsumerOf(i) == {p \in Procs : loc[p].myindex = i}

\* C1: the rows SharedQueueRead has returned for a consumer are, in the
\* same order, the first of the rows SharedQueueWrite was given for it,
\* whether they went straight to the queue or through the tuplestore.
FifoPerConsumer ==
    \A i \in Slots : IsPrefix(hist.readout[i], hist.written[i])

\* C1: a row that was put into the tuplestore, after at least one other
\* row, has been returned
FifoWitness ==
    \E k \in hist.stored[0] : k >= 2 /\ k <= Len(hist.readout[0])

\* C2: no row is returned twice; and once the consumer has read EOF, the
\* producer having written only while the consumer was active, every row
\* written has been returned exactly once.
ExactlyOnce ==
    \A i \in Slots :
        /\ \A a, b \in DOMAIN hist.readout[i] :
               hist.readout[i][a] = hist.readout[i][b] => a = b
        /\ (\E p \in ConsumerOf(i) : pc[p] = "cons_done")
              /\ ~hist.inactive[i]
           => /\ Len(hist.readout[i]) = Len(hist.written[i])
              /\ \A k \in DOMAIN hist.written[i] :
                    Cardinality({a \in DOMAIN hist.readout[i] :
                        hist.readout[i][a] = hist.written[i][k]}) = 1

\* C2: the consumer has read EOF after all rows, some of them stored and
\* one of them long
ExactlyOnceWitness ==
    /\ pc[2] = "cons_done"
    /\ ~hist.inactive[0]
    /\ Len(hist.written[0]) >= 3
    /\ hist.stored[0] # {}
    /\ \E k \in DOMAIN hist.written[0] :
          Len(hist.written[0][k]) > sq.sq_consumers[0].cs_qlength - IntSize

\* C3: every row returned has the length and the bytes of the row written;
\* while a long row is pulled, the parts got so far are its first bytes
\* and the length announced is its length.
RoundTrip ==
    \A i \in Slots :
        /\ \A k \in DOMAIN hist.readout[i] :
               /\ k <= Len(hist.written[i])
               /\ Len(hist.readout[i][k]) = Len(hist.written[i][k])
               /\ \A j \in 1..Len(hist.readout[i][k]) :
                      hist.readout[i][k][j] = hist.written[i][k][j]
        /\ \A p \in ConsumerOf(i) :
               pc[p] \in {"pull_wait", "pull_cons"}
               => LET k == Len(hist.readout[i]) + 1
                  IN  /\ k <= Len(hist.written[i])
                      /\ loc[p].datalen = Len(hist.written[i][k])
                      /\ loc[p].offset = Len(loc[p].msg)
                      /\ loc[p].offset < loc[p].datalen
                      /\ loc[p].msg =
                            SubSeq(hist.written[i][k], 1, loc[p].offset)

\* C3: a row of twice the length of the queue or more was returned whole
\* after an earlier row had moved the read and write positions
RoundTripWitness ==
    \E k \in DOMAIN hist.readout[0] :
        /\ k >= 2
        /\ Len(hist.readout[0][1]) = 1
        /\ Len(hist.readout[0][k]) >= 2 * sq.sq_consumers[0].cs_qlength
        /\ hist.readout[0][k] = hist.written[0][k]

\* ----------------------------------------------- a consumer never arrives
\* Session 1 has bound as the producer, session 2 has acquired the queue
\* and may bind, read and release; the session of the other consumer node
\* never arrives.
Present == Procs \ {CHOOSE p \in Procs : \A q \in Procs : q <= p}

InitFair ==
    /\ SQueueSize = ProtoQueueSize
    /\ consNodes = <<1, 2, 3>>
    /\ distNodes = <<1, 2, 3>>
    /\ inHash = TRUE
    /\ sq = [FormatSQueue(BlankQueue, 2, ProtoQueueSize, TRUE) EXCEPT
                !.sq_pid = 1, !.sq_nodeid = 1, !.sq_refcnt = 3,
                !.sq_consumers[0].cs_node = 2,
                !.sq_consumers[1].cs_node = 3]
    /\ mem = [a \in 0..(SQueueSize - 1) |-> 0]
    /\ syncQueue = TRUE
    /\ SharedQueues = NoQueues
    /\ SQueueSyncs = [b \in 1..NUM_SQUEUES |-> 0]
    /\ SQueuesLock = 0
    /\ sqs_producer_lwlock = FreeProducerLock
    /\ cs_lwlock = [i \in SlotIds |-> 0]
    /\ sqs_producer_latch = OwnLatch(FreeLatch, 1)
    /\ cs_latch = [i \in SlotIds |-> FreeLatch]
    /\ pc = <<"producer", "acquired", "idle">>
    /\ loc = [p \in Procs |->
                IF p = 1 THEN [Loc0 EXCEPT !.consMap = <<SQ_CONS_SELF, 0, 1>>]
                ELSE Loc0]
    /\ tuplestore = [i \in SlotIds |-> NoStore]
    /\ hist = [Hist0 EXCEPT !.bound = {1}]

\* the producer unbinds after SharedQueueFinish, without a failure
UnBindAfterFinish(p) ==
    /\ loc[p].result \in {"finished", "unfinished"}
    /\ UnBindCall(p, FALSE)

\* the steps a running handler takes by itself, and the consumer's reads
HandlerStep(p) ==
    \/ FinishNext(p)
    \/ UnBindLock(p) \/ UnBindScan(p) \/ UnBindWake(p) \/ UnBindTimeout(p)
    \/ ResetNotConnectedLock(p) \/ ResetNotConnectedScan(p)
    \/ UnBindFinalReg(p) \/ UnBindFinalProd(p) \/ UnBindFinalScan(p)
    \/ BindProd(p) \/ BindCons(p)
    \/ ReadCall(p, TRUE) \/ ReadBody(p) \/ ReadWake(p)
    \/ ReleaseProd(p) \/ ReleaseCons(p)

NextFair ==
    \E p \in Present :
        \/ FinishCall(p)
        \/ UnBindAfterFinish(p)
        \/ BindCall(p)
        \/ ReleaseCall(p)
        \/ HandlerStep(p)

\* a handler whose next step is possible again and again takes it: a
\* session queued for an LWLock gets it once the holders, which keep it for
\* a few instructions, release it; WaitLatch of SharedQueueUnBind returns
\* when the latch is set or after its timeout of 10 s (line 1569); and a
\* bound consumer keeps reading
SpecFair ==
    /\ InitFair
    /\ [][NextFair]_vars
    /\ \A p \in Present : SF_vars(HandlerStep(p))

\* ------------------------------------------------- locks a session waits for
\* the labels at which the next step of a handler takes SQueuesLock
WantsRegistry(p) == pc[p] \in {"acq_again", "ub_final_reg"}

\* ... the producer lock in exclusive mode
WantsProducerExcl(p) ==
    pc[p] \in {"bind_prod", "ub_lock", "ub_final_prod", "rnc_prod", "dc_prod",
               "rel_prod"}

\* ... the producer lock in shared mode, once WaitLatch has returned
WantsProducerShared(p) ==
    /\ pc[p] \in {"rd_wait", "pull_wait"}
    /\ cs_latch[loc[p].myindex].is_set

\* ... the lock of a consumer
WantsConsumer(p) ==
    IF pc[p] \in {"rd_cons", "pull_cons"} THEN {loc[p].myindex}
    ELSE IF pc[p] \in {"acq_cons", "bind_cons", "fin", "ub_scan",
                       "ub_final_scan", "rnc_scan", "rs_scan", "dc_scan",
                       "rel_cons", "rel_never"} THEN {loc[p].i}
    ELSE {}

HoldsAnyProducerLock(p) ==
    sqs_producer_lwlock.excl = p \/ p \in sqs_producer_lwlock.shared

HeldConsumerLocks(p) == {i \in SlotIds : cs_lwlock[i] = p}

\* the sessions holding, in a conflicting mode, the lock p waits for
BlockedBy(p) ==
    {q \in Procs \ {p} :
        \/ WantsRegistry(p) /\ SQueuesLock = q
        \/ WantsProducerExcl(p) /\ HoldsAnyProducerLock(q)
        \/ WantsProducerShared(p) /\ sqs_producer_lwlock.excl = q
        \/ \E i \in WantsConsumer(p) : cs_lwlock[i] = q}

\* the labels between two calls: the session holds no lock and its next
\* call starts by taking SQueuesLock, the producer lock or a consumer lock
CallLabels == {"idle", "acquired", "producer", "consumer", "cons_done",
               "failed", "unbound"}

\* C4: once the call that moved a consumer to CONSUMER_ERROR has returned,
\* a session waiting in SharedQueueRead on that consumer has its latch set,
\* so that WaitLatch returns and the read fails instead of staying blocked
ProducerFailureWakes ==
    \A p \in Procs :
        (/\ pc[p] = "rd_wait"
         /\ inHash
         /\ sq.sq_consumers[loc[p].myindex].cs_status = CONSUMER_ERROR
         /\ \A q \in Procs \ {p} : pc[q] \in CallLabels \cup {"end"})
        => cs_latch[loc[p].myindex].is_set

UnBindTeardownStep(p) == pc[p] = "ub_final_scan" /\ pc'[p] = "unbound"

\* C6: SharedQueueUnBind disowns the producer latch and decrements
\* sq_refcnt under SQueuesLock, and only when every consumer is
\* CONSUMER_DONE (failed = false) or none is CONSUMER_ACTIVE (failed = true)
\* and no consumer is CONSUMER_ACTIVE with a pid
UnBindTeardownSafe ==
    [][\A p \in Procs : UnBindTeardownStep(p) =>
          /\ SQueuesLock = p
          /\ ~loc[p].failed =>
                \A i \in Slots : sq.sq_consumers[i].cs_status = CONSUMER_DONE
          /\ loc[p].failed =>
                \A i \in Slots : sq.sq_consumers[i].cs_status # CONSUMER_ACTIVE
          /\ \A i \in Slots : ~(/\ sq.sq_consumers[i].cs_status
                                      = CONSUMER_ACTIVE
                                /\ sq.sq_consumers[i].cs_pid # 0)
          /\ sqs_producer_latch'.owner_pid = NoPid
          /\ sq'.sq_refcnt = IF sq.sq_refcnt = 1 THEN 0
                             ELSE sq.sq_refcnt - 1
          /\ inHash' = (inHash /\ sq.sq_refcnt # 1)]_vars

UnBindTeardownWitness ==
    /\ \E p \in Procs : pc[p] = "unbound"
    /\ ~inHash
    /\ \E i \in Slots : sq.sq_consumers[i].cs_status = CONSUMER_ERROR
    /\ \E i \in Slots : sq.sq_consumers[i].cs_status = CONSUMER_DONE

\* C7: SharedQueueUnBind(failed = false) called after SharedQueueFinish
\* returns although the session of one consumer never arrives, provided
\* the consumer that has bound reads to the end
UnBindReturns ==
    \A p \in Present : (pc[p] = "ub_lock") ~> (pc[p] = "unbound")

UnBindReturnsWitness ==
    /\ pc[1] = "unbound"
    /\ sq.sq_consumers[0].cs_status = CONSUMER_DONE
    /\ 2 \in hist.bound
    /\ sq.sq_consumers[1].cs_status = CONSUMER_DONE
    /\ sq.sq_consumers[1].cs_pid = 0

\* C8: no set of sessions in which each waits for a lock (SQueuesLock, the
\* producer lock, a consumer lock) held by another session of the set
NoDeadlock ==
    \A S \in SUBSET Procs :
        S # {} => \E p \in S : BlockedBy(p) \cap S = {}

NoDeadlockWitness ==
    \E p \in Procs : \E q \in BlockedBy(p) : \E r \in BlockedBy(q) :
        /\ r # p
        /\ BlockedBy(r) = {}

\* C9: a session about to take SQueuesLock holds neither a producer lock
\* nor a consumer lock, a session about to take the producer lock holds no
\* consumer lock, and no session holds the locks of two consumers
LockOrder ==
    \A p \in Procs :
        /\ (WantsRegistry(p) \/ pc[p] \in CallLabels)
              => ~HoldsAnyProducerLock(p) /\ HeldConsumerLocks(p) = {}
        /\ (WantsProducerExcl(p) \/ pc[p] \in {"rd_wait", "pull_wait"})
              => HeldConsumerLocks(p) = {}
        /\ Cardinality(HeldConsumerLocks(p)) <= 1

LockOrderWitness ==
    \E p, q \in Procs :
        /\ pc[p] = "ub_final_prod" /\ SQueuesLock = p
        /\ pc[q] = "rd_cons" /\ q \in sqs_producer_lwlock.shared

\* the consumers of a queue as SharedQueueAcquire formats them for n
\* consumers in a region of size bytes
Formatted(q, n, size) ==
    /\ q.sq_nconsumers = n
    /\ DOMAIN q.sq_consumers = 0..(n - 1)
    /\ \A i \in 0..(n - 1) :
          LET c == q.sq_consumers[i]
          IN  /\ c.cs_status = CONSUMER_ACTIVE
              /\ c.cs_pid = 0 /\ c.cs_node = -1
              /\ c.cs_ntuples = 0
              /\ c.cs_qreadpos = 0 /\ c.cs_qwritepos = 0
              /\ c.cs_qlength > 0
              /\ c.cs_qlength = q.sq_consumers[0].cs_qlength
              /\ c.cs_qstart >= SQUEUE_HDR_SIZE(n)
              /\ c.cs_qstart + c.cs_qlength <= size
    /\ \A i, j \in 0..(n - 1) :
          i < j => q.sq_consumers[i].cs_qstart + q.sq_consumers[i].cs_qlength
                   <= q.sq_consumers[j].cs_qstart

\* SharedQueueAcquire returns to session p
AcquireReturns(p) ==
    pc[p] \in {"idle", "acq_again", "acq_cons"} /\ pc'[p] = "acquired"

\* C10: when SharedQueueAcquire returns the queue is in the hash table with
\* the number of consumers asked for; the creating call leaves it freshly
\* formatted with sq_refcnt = 1, every later call adds exactly 1 to
\* sq_refcnt and leaves the consumers alone
AcquireFormats ==
    [][\A p \in Procs : AcquireReturns(p) =>
          /\ inHash'
          /\ sq'.sq_nconsumers = NCons
          /\ IF ~inHash
             THEN Formatted(sq', NCons, SQueueSize) /\ sq'.sq_refcnt = 1
             ELSE /\ sq'.sq_refcnt = sq.sq_refcnt + 1
                  /\ sq'.sq_consumers = sq.sq_consumers]_vars

AcquireFormatsWitness ==
    /\ inHash
    /\ sq.sq_refcnt = 3
    /\ \A p \in Procs : pc[p] = "acquired"
    /\ Formatted(sq, NCons, SQueueSize)

\* ------------------------------------------------------- the stale queue
\* the queue q, in the hash table or not, is what SharedQueueAcquire of
\* session p takes for a leftover: a producer is bound and the first
\* consumer of p's node is done
StaleIn(q, present, p) ==
    /\ present
    /\ q.sq_pid # 0
    /\ \E i \in 0..(q.sq_nconsumers - 1) :
          /\ q.sq_consumers[i].cs_node = p
          /\ q.sq_consumers[i].cs_status = CONSUMER_DONE
          /\ \A j \in 0..(i - 1) : q.sq_consumers[j].cs_node # p

StaleFor(p) == StaleIn(sq, inHash, p)

\* SharedQueueAcquire of session p finds the queue stale and goes to sleep
RetryStep(p) ==
    pc[p] \in {"idle", "acq_again", "acq_cons"} /\ pc'[p] = "acq_sleep"

\* the producer bound to the queue has returned from SharedQueueUnBind
ProducerUnBound == sq.sq_pid # 0 /\ pc[sq.sq_pid] \in {"unbound", "end"}

AcquireFails(p) == pc[p] = "acq_sleep" /\ pc'[p] = "end"

\* session p holds no lock
HoldsNoLock(p) ==
    /\ SQueuesLock # p
    /\ ~HoldsAnyProducerLock(p)
    /\ HeldConsumerLocks(p) = {}

\* C12: SharedQueueAcquire finds the queue stale at most MaxTries times
\* (trycount counts the earlier times); each time it leaves the queue as
\* it is and releases SQueuesLock; after the MaxTries-th time it fails,
\* holding no lock and leaving the queue as it is
AcquireRetryBounded ==
    [][\A p \in Procs :
          /\ RetryStep(p) =>
                /\ loc[p].trycount + 1 <= MaxTries
                /\ sq' = sq /\ inHash' = inHash
                /\ SQueuesLock' = 0
                /\ ~HoldsAnyProducerLock(p) /\ HeldConsumerLocks(p) = {}
          /\ AcquireFails(p) =>
                /\ loc[p].trycount + 1 = MaxTries
                /\ HoldsNoLock(p)
                /\ sq' = sq /\ inHash' = inHash
          /\ (pc[p] = "acq_sleep" /\ pc'[p] # pc[p]) =>
                (loc[p].trycount + 1 < MaxTries <=> pc'[p] = "acq_again")]_vars

AcquireRetryBoundedWitness ==
    \E p \in Procs :
        /\ pc[p] = "acq_sleep"
        /\ loc[p].trycount + 1 = MaxTries
        /\ StaleFor(p)


\* --------------------------------------------------- who binds to the queue
\* The sessions of the nodes of consNodes have all acquired the queue,
\* which has one consumer queue for each of them but one; a session of
\* another node takes no part. Any of them may be the first to bind; they
\* bind and release in any order. Each call of SharedQueueBind passes its
\* own lists, one of BindConsLists and one of BindDistLists, which need
\* not be the lists of the other calls. The producer stays bound.
BindConsLists == {<<1, 2, 3>>, <<3, 1, 2>>, <<1, 2>>, <<2, 3>>}
BindDistLists == {<<1, 2, 3>>, <<3, 2, 1>>, <<1, 2>>, <<2, 3>>}

Members(list) == {list[k] : k \in DOMAIN list}
Participants == Members(consNodes)

\* "The consNodes should be a subset of distNodes" (line 450), the
\* caller's node is in consNodes (line 517), and consNodes names as many
\* nodes as the list the queue was acquired for (lines 606-613, 689)
BindArgs(p, cList, dList) ==
    /\ p \in Members(cList)
    /\ Members(cList) \subseteq Members(dList)
    /\ Len(cList) = Len(consNodes)

InitBind ==
    /\ SQueueSize = ProtoQueueSize
    /\ consNodes \in {<<1, 2, 3>>, <<1, 2>>}
    /\ distNodes = <<1, 2, 3>>
    /\ inHash = TRUE
    /\ sq = [FormatSQueue(BlankQueue, NCons, ProtoQueueSize, TRUE) EXCEPT
               !.sq_refcnt = Len(consNodes)]
    /\ mem = [a \in 0..(SQueueSize - 1) |-> 0]
    /\ syncQueue = TRUE
    /\ SharedQueues = NoQueues
    /\ SQueueSyncs = [b \in 1..NUM_SQUEUES |-> 0]
    /\ SQueuesLock = 0
    /\ sqs_producer_lwlock = FreeProducerLock
    /\ cs_lwlock = [i \in SlotIds |-> 0]
    /\ sqs_producer_latch = FreeLatch
    /\ cs_latch = [i \in SlotIds |-> FreeLatch]
    /\ pc = [p \in Procs |-> IF p \in Participants THEN "acquired"
                             ELSE "idle"]
    /\ loc = [p \in Procs |-> Loc0]
    /\ tuplestore = [i \in SlotIds |-> NoStore]
    /\ hist = Hist0

\* a call of SharedQueueBind with lists of the caller's choice
BindAny(p) ==
    \E cList \in BindConsLists, dList \in BindDistLists :
        BindArgs(p, cList, dList) /\ BindLock(p, cList, dList)

NextBind ==
    \E p \in Procs :
        \/ BindAny(p)
        \/ BindProd(p)
        \/ BindMap(p)
        \/ BindRefcnt(p)
        \/ BindCons(p)
        \/ ReleaseCall(p)
        \/ ReleaseProd(p)
        \/ ReleaseCons(p)

SpecBind == InitBind /\ [][NextBind]_vars

\* the session is on the producer's branch of SharedQueueBind or has
\* returned from it
OnProducerPath(p) == pc[p] \in {"bind_cmap", "bind_refcnt", "producer"}

\* the session is on the consumer's branch or has left SharedQueueBind by it
OnConsumerPath(p) ==
    \/ pc[p] \in {"bind_cons", "consumer", "aborted"}
    \/ pc[p] = "failed" /\ loc[p].result = "producer_failed"

\* C13: whatever the order of the calls of SharedQueueBind for one queue,
\* a call takes the producer's branch only if it finds sq_pid = 0, it
\* stores its own pid there, and it returns with *myindex = -1 and sq_refcnt
\* one more than it was; at most one session is on the producer's branch,
\* the sessions on the consumer's branch find sq_pid set, and sq_pid, once
\* set, keeps its value as long as the queue exists
OneProducer ==
    [][/\ \A p \in Procs :
            /\ (pc[p] = "bind_prod" /\ pc'[p] = "bind_cmap") =>
                  sq.sq_pid = 0 /\ sq'.sq_pid = p
            /\ (pc[p] = "bind_prod" /\ pc'[p] # pc[p] /\ sq.sq_pid # 0) =>
                  pc'[p] \in {"bind_cons", "consumer", "aborted"}
            /\ (pc[p] = "bind_cmap" /\ pc'[p] = "bind_refcnt") =>
                  loc'[p].myindex = -1 /\ loc'[p].refcnt = sq.sq_refcnt
            /\ (pc[p] = "bind_refcnt" /\ pc'[p] = "producer") =>
                  /\ sq'.sq_refcnt = sq.sq_refcnt + 1
                  /\ sq.sq_refcnt = loc[p].refcnt
                  /\ loc'[p].myindex = -1
                  /\ sq'.sq_pid = p
       /\ Cardinality({p \in Procs : OnProducerPath(p)'}) <= 1
       /\ \A p \in Procs : OnConsumerPath(p)' =>
             sq'.sq_pid \notin {0, p} \/ ~inHash'
       /\ (sq.sq_pid # 0 /\ inHash') => sq'.sq_pid = sq.sq_pid]_vars

\* the three sessions have called SharedQueueBind: one is the producer,
\* the other two have gone the consumer's way
OneProducerWitness ==
    /\ Len(consNodes) = 3
    /\ Cardinality({p \in Procs : pc[p] = "producer"}) = 1
    /\ Cardinality({p \in Procs : OnConsumerPath(p)}) = 2
    /\ \E p \in Procs : pc[p] = "producer" /\ sq.sq_pid = p /\ p # FirstBinder


\* ------------------------------------------- binding to a failed producer
\* the caller of SharedQueueBind finds its consumer in error or done
BindFindsFailure(p) ==
    /\ pc[p] = "bind_cons"
    /\ pc'[p] # pc[p]
    /\ sq.sq_consumers[loc[p].i].cs_status \in {CONSUMER_ERROR, CONSUMER_DONE}

\* C14: SharedQueueBind of a consumer that finds its consumer queue in
\* status error or done sets the status to done, sets the producer's
\* latch, holds neither the consumer lock nor the producer lock nor
\* SQueuesLock afterwards and fails with the producer error; cs_pid of the
\* queue stays 0 and the caller does not own its latch
BindFailsOnFailedProducer ==
    [][\A p \in Procs : BindFindsFailure(p) =>
          LET i == loc[p].i
          IN  /\ pc'[p] = "failed"
              /\ loc'[p].result = "producer_failed"
              /\ loc'[p].myindex = -1
              /\ p \notin hist'.bound
              /\ sq'.sq_consumers[i].cs_status = CONSUMER_DONE
              /\ sqs_producer_latch'.is_set
              /\ cs_lwlock'[i] # p
              /\ sqs_producer_lwlock'.excl # p
              /\ p \notin sqs_producer_lwlock'.shared
              /\ SQueuesLock' # p
              /\ sq.sq_consumers[i].cs_pid = 0
              /\ sq'.sq_consumers[i].cs_pid = 0
              /\ cs_latch'[i].owner_pid # p
              /\ cs_latch'[i] = cs_latch[i]]_vars


\* SharedQueueBind has failed with the producer error on a consumer queue
\* the producer had put in error
BindFailsOnFailedProducerWitness ==
    \E p \in Procs :
        /\ pc[p] = "failed"
        /\ loc[p].result = "producer_failed"
        /\ inHash
        /\ sqs_producer_latch.is_set
        /\ \E i \in SlotsOfNode(p) :
              /\ sq.sq_consumers[i].cs_status = CONSUMER_DONE
              /\ sq.sq_consumers[i].cs_pid = 0

\* ------------------------------------------- the consumer list of a binder
\* the session leaves the consumer's branch of SharedQueueBind
LeavesConsumerBranch(p) ==
    /\ \/ pc[p] = "bind_prod" /\ sq.sq_pid # 0
       \/ pc[p] = "bind_cons"
    /\ pc'[p] \notin {"bind_prod", "bind_cons"}

\* C15 as stated: a consumer's SharedQueueBind either returns the index of
\* the consumer queue of the caller's node, with cs_pid the caller's pid and
\* the latch owned by the caller, or it fails; when consNodes does not
\* match the consumer queues it fails and no consumer queue is bound to the
\* caller
BindChecksConsumers ==
    [][\A p \in Procs : LeavesConsumerBranch(p) =>
          /\ \/ pc'[p] = "failed"
             \/ /\ pc'[p] = "consumer"
                /\ loc'[p].myindex \in 0..(sq'.sq_nconsumers - 1)
                /\ sq'.sq_consumers[loc'[p].myindex].cs_node = p
                /\ sq'.sq_consumers[loc'[p].myindex].cs_pid = p
                /\ cs_latch'[loc'[p].myindex].owner_pid = p
          /\ ConsumersMismatch(p) =>
                /\ pc'[p] = "failed"
                /\ \A i \in 0..(sq'.sq_nconsumers - 1) :
                      sq'.sq_consumers[i].cs_pid # p]_vars

\* ------------------------------------------------------- the consumer map
\* the producer's SharedQueueBind has gone through distNodes
BuildsConsMap(p) == pc[p] = "bind_cmap" /\ pc'[p] = "bind_refcnt"

ShortLens == {len \in DataLens : IntSize + len <= DataQueueSize
                                    - SQueueHeaderSize - ConsStateSize}

NextClosed ==
    \E p \in Procs :
        \/ /\ hist.nwrites < MaxWrites
           /\ \E i \in SlotIds, len \in ShortLens :
                  SharedQueueWrite(p, i, len)
        \/ \E canwait \in BOOLEAN : ReadCall(p, canwait)
        \/ ReadBody(p)
        \/ ReadWake(p)
        \/ FinishCall(p)
        \/ ResetCall(p)
        \/ ResetScan(p)
        \/ \E failed \in BOOLEAN : UnBindCall(p, failed)
        \/ UnBindLock(p)
        \/ UnBindScan(p)
        \/ UnBindWake(p)
        \/ UnBindTimeout(p)
        \/ UnBindFinalReg(p)
        \/ UnBindFinalProd(p)
        \/ UnBindFinalScan(p)
        \/ ResetNotConnectedLock(p)
        \/ ResetNotConnectedScan(p)
        \/ ReleaseCall(p)
        \/ ReleaseProd(p)
        \/ ReleaseCons(p)

SpecClosed == InitData /\ [][NextClosed]_vars

\* SharedQueueWrite is called for consumer i
WriteStep(i) ==
    /\ hist'.nwrites = hist.nwrites + 1
    /\ Len(hist'.written[i]) = Len(hist.written[i]) + 1

\* C17 as stated: SharedQueueWrite for a consumer in status EOF, error or
\* done leaves the queue and the tuplestore without the row
WriteDiscards ==
    [][\A i \in Slots :
          (WriteStep(i) /\ sq.sq_consumers[i].cs_status # CONSUMER_ACTIVE) =>
             /\ sq'.sq_consumers[i] = sq.sq_consumers[i]
             /\ mem' = mem
             /\ Len(tuplestore'[i].rows) <= Len(tuplestore[i].rows)]_vars

\* the row SharedQueueWrite was given in this step
RowWritten(i) == hist'.written[i][Len(hist'.written[i])]

\* C17: SharedQueueWrite for a consumer in status EOF, error or done never
\* puts the row into the queue: the consumer state, the memory and the
\* consumer's latch stay as they are. The row is dropped only if the queue
\* has room for it and either there is no tuplestore or the queue is more
\* than half free, in which case the tuplestore is emptied; if the queue
\* lacks the room, or a tuplestore exists and the queue is not more than
\* half free, the row is appended to the tuplestore, which is created if
\* there is none.
WriteToClosedConsumer ==
    [][\A i \in Slots :
          (WriteStep(i) /\ sq.sq_consumers[i].cs_status # CONSUMER_ACTIVE) =>
             LET cstate == sq.sq_consumers[i]
                 st == tuplestore[i]
                 free == QUEUE_FREE_SPACE(cstate)
                 room == free >= IntSize + Len(RowWritten(i))
                 dumps == st.exists /\ free > cstate.cs_qlength \div 2
             IN  /\ sq'.sq_consumers[i] = cstate
                 /\ mem' = mem
                 /\ cs_latch' = cs_latch
                 /\ tuplestore'[i].rows =
                       IF dumps
                       THEN IF room THEN << >> ELSE <<RowWritten(i)>>
                       ELSE IF st.exists \/ ~room
                       THEN Append(st.rows, RowWritten(i))
                       ELSE << >>
                 /\ tuplestore'[i].exists = (st.exists \/ ~room)]_vars

\* a row written to a consumer that is done was put into the tuplestore
WriteToClosedConsumerWitness ==
    /\ hist.inactive[0]
    /\ sq.sq_consumers[0].cs_status = CONSUMER_DONE
    /\ Len(hist.written[0]) \in hist.stored[0]
    /\ tuplestore[0].rows # << >>

\* ------------------------------------------------------- done is the end
\* the session is inside SharedQueueRead
InRead(p) == pc[p] \in {"rd_cons", "rd_wait", "pull_wait", "pull_cons"}

\* the bytes of the queue of consumer i
RingBytes(q, m, i) ==
    [a \in 0..(q.sq_consumers[i].cs_qlength - 1) |->
        m[q.sq_consumers[i].cs_qstart + a]]

\* C18: a consumer in status done stays in it as long as the queue exists;
\* SharedQueueRead is not running on it and returns no row for it; and no
\* step puts bytes into its queue: the write position does not advance,
\* cs_ntuples does not grow and the bytes stay as they are
DoneIsTerminal ==
    /\ [](\A p \in Procs : (InRead(p) /\ inHash) =>
             sq.sq_consumers[loc[p].myindex].cs_status # CONSUMER_DONE)
    /\ [][\A i \in Slots :
            (inHash /\ inHash'
             /\ sq.sq_consumers[i].cs_status = CONSUMER_DONE) =>
               /\ sq'.sq_consumers[i].cs_status = CONSUMER_DONE
               /\ hist'.readout[i] = hist.readout[i]
               /\ sq'.sq_consumers[i].cs_qwritepos
                     \in {0, sq.sq_consumers[i].cs_qwritepos}
               /\ sq'.sq_consumers[i].cs_ntuples
                     <= sq.sq_consumers[i].cs_ntuples
               /\ RingBytes(sq', mem', i) = RingBytes(sq, mem, i)]_vars

\* the consumer was marked done with a row left in its queue, the producer
\* has written since, reset the consumers and called SharedQueueUnBind
DoneIsTerminalWitness ==
    /\ inHash
    /\ sq.sq_consumers[0].cs_status = CONSUMER_DONE
    /\ sq.sq_consumers[0].cs_ntuples > 0
    /\ hist.inactive[0]
    /\ Len(hist.readout[0]) < Len(hist.written[0])
    /\ pc[sq.sq_pid] = "unbound"

\* --------------------------------------------------- a consumer releases
\* SharedQueueRelease of a consumer whose node has a consumer queue, the
\* producer being bound, goes through that queue and returns
ReleasesOwnSlot(p) == pc[p] = "rel_cons" /\ pc'[p] = "end"

\* sq_refcnt is one less, or the queue is removed with the last reference
RefcntDropped ==
    IF sq.sq_refcnt = 1 THEN ~inHash'
    ELSE inHash' /\ sq'.sq_refcnt = sq.sq_refcnt - 1

NeverBound(p) == p \notin hist.bound

\* a consumer queue no session is connected to gets the status done
MarkedDoneUnconnected(i) ==
    /\ sq.sq_consumers[i].cs_pid = 0
    /\ sq.sq_consumers[i].cs_status # CONSUMER_DONE
    /\ sq'.sq_consumers[i].cs_status = CONSUMER_DONE

FinishVisits(p, i) ==
    \/ pc[p] = "producer" /\ i = 0 /\ FinishCall(p)
    \/ pc[p] = "fin" /\ i = loc[p].i /\ FinishNext(p)

ReadEOFOnlyWhenDrained ==
    [][\A p \in Procs :
          LET i == loc[p].myindex
              cstate == sq.sq_consumers[i]
              after == sq'.sq_consumers[i]
              returnsEOF == /\ InRead(p) /\ pc'[p] # pc[p]
                            /\ loc'[p].result = "eof"
              returnsTuple == /\ InRead(p) /\ pc'[p] = "consumer"
                              /\ loc'[p].result = "tuple"
          IN  /\ returnsEOF =>
                    /\ cstate.cs_status = CONSUMER_EOF
                    /\ cstate.cs_ntuples = 0
                    /\ cstate.cs_qreadpos = cstate.cs_qwritepos
                    /\ ~hist.inactive[i] =>
                          hist.readout[i] = hist.written[i]
                    /\ hist'.readout = hist.readout
                    /\ after = [cstate EXCEPT !.cs_status = CONSUMER_DONE]
                    /\ cs_latch[i].owner_pid = p
                    /\ cs_latch'[i].owner_pid = NoPid
                    /\ sqs_producer_latch'.is_set
                    /\ pc'[p] = "cons_done"
                    /\ HoldsNoLock(p)'
              /\ returnsTuple =>
                    /\ Len(hist'.readout[i]) = Len(hist.readout[i]) + 1
                    /\ cstate.cs_ntuples > 0
                    /\ after.cs_ntuples = cstate.cs_ntuples - 1
                    /\ after.cs_status = cstate.cs_status
                    /\ cs_latch'[i].owner_pid = cs_latch[i].owner_pid
                    /\ HoldsNoLock(p)'
              /\ (InRead(p) /\ after.cs_status # cstate.cs_status
                  /\ pc'[p] # pc[p]) => returnsEOF]_vars

\* the consumer has read EOF after the rows, one of which came to it
\* through the tuplestore
ReadEOFOnlyWhenDrainedWitness ==
    \E p \in Procs :
        /\ pc[p] = "cons_done"
        /\ loc[p].result = "eof"
        /\ sq.sq_consumers[0].cs_status = CONSUMER_DONE
        /\ cs_latch[0].owner_pid = NoPid
        /\ Len(hist.readout[0]) >= 2
        /\ hist.stored[0] # {}

\* -------------------------------------- a node closes before it connects
\* Three sessions have acquired a queue of two consumers. The first binds
\* as the producer and writes rows that fit into a consumer queue; the
\* others bind and read, or are disconnected before they bind, when the
\* queue of their node may hold rows already. Between the rows the
\* producer asks whether it can pause.
InitDisc ==
    /\ SQueueSize = PauseQueueSize
    /\ consNodes = <<1, 2, 3>>
    /\ distNodes = <<1, 2, 3>>
    /\ inHash = TRUE
    /\ sq = [FormatSQueue(BlankQueue, 2, PauseQueueSize, TRUE) EXCEPT
               !.sq_refcnt = 3]
    /\ mem = [a \in 0..(SQueueSize - 1) |-> 0]
    /\ syncQueue = TRUE
    /\ SharedQueues = NoQueues
    /\ SQueueSyncs = [b \in 1..NUM_SQUEUES |-> 0]
    /\ SQueuesLock = 0
    /\ sqs_producer_lwlock = FreeProducerLock
    /\ cs_lwlock = [i \in SlotIds |-> 0]
    /\ sqs_producer_latch = FreeLatch
    /\ cs_latch = [i \in SlotIds |-> FreeLatch]
    /\ pc = [p \in Procs |-> "acquired"]
    /\ loc = [p \in Procs |-> Loc0]
    /\ tuplestore = [i \in SlotIds |-> NoStore]
    /\ hist = Hist0

NextDisc ==
    \E p \in Procs :
        \/ BindCall(p)
        \/ BindProd(p)
        \/ BindMap(p)
        \/ BindRefcnt(p)
        \/ BindCons(p)
        \/ /\ hist.nwrites < MaxWrites
           /\ \E i \in SlotIds, len \in DataLens :
                  /\ IntSize + len <= sq.sq_consumers[i].cs_qlength
                  /\ SharedQueueWrite(p, i, len)
        \/ ReadCall(p, TRUE)
        \/ ReadBody(p)
        \/ ReadWake(p)
        \/ DisconnectCall(p)
        \/ DisconnectProd(p)
        \/ DisconnectScan(p)
        \/ CanPauseCall(p)

SpecDisc == InitDisc /\ [][NextDisc]_vars

\* C23: SharedQueueDisconnectConsumer goes past the lookup only if the
\* queue exists and its producer is bound, and else changes nothing. Each
\* pass of its loop marks the consumer done and empties its queue if
\* cs_node is the caller's node, and leaves it alone if not; it leaves alone
\* every other consumer, sq_refcnt and the rest of the queue header; the
\* producer's latch is set when the loop ends, when every consumer of the
\* caller's node is done and empty and the caller holds no lock.
DisconnectMarksOwnNode ==
    /\ [](\A p \in Procs : pc[p] \in {"dc_prod", "dc_scan"} =>
                               inHash /\ sq.sq_pid # 0)
    /\ [][\A p \in Procs : (pc[p] = "acquired" /\ pc'[p] = "dc_prod") =>
             /\ sq' = sq /\ mem' = mem /\ inHash' = inHash
             /\ cs_latch' = cs_latch
             /\ sqs_producer_latch' = sqs_producer_latch]_vars
    /\ [][\A p \in Procs :
             (pc[p] = "dc_scan" /\ (pc'[p] # pc[p] \/ loc'[p] # loc[p])) =>
             LET i == loc[p].i
                 cstate == sq.sq_consumers[i]
                 Discarded(c) ==
                     [c EXCEPT !.cs_status = CONSUMER_DONE, !.cs_ntuples = 0,
                               !.cs_qreadpos = 0, !.cs_qwritepos = 0]
             IN  /\ sq' = [sq EXCEPT !.sq_consumers[i] =
                              IF cstate.cs_node = p THEN Discarded(cstate)
                              ELSE cstate]
                 /\ inHash' = inHash
                 /\ cs_latch' = cs_latch
                 /\ pc'[p] = "acquired" =>
                       /\ sqs_producer_latch'.is_set
                       /\ HoldsNoLock(p)'
                       /\ \A j \in Slots :
                             sq.sq_consumers[j].cs_node = p =>
                                sq'.sq_consumers[j]
                                   = Discarded(sq.sq_consumers[j])]_vars

\* the node of session 2 was disconnected when its queue held a row, and
\* the queue of the other consumer still holds its row
DisconnectMarksOwnNodeWitness ==
    /\ inHash
    /\ sq.sq_nconsumers = 2
    /\ \E i \in Slots, j \in Slots :
          /\ sq.sq_consumers[i].cs_node = 2
          /\ sq.sq_consumers[i].cs_status = CONSUMER_DONE
          /\ sq.sq_consumers[i].cs_pid = 0
          /\ sq.sq_consumers[i].cs_ntuples = 0
          /\ hist.written[i] # << >>
          /\ hist.readout[i] = << >>
          /\ ~hist.inactive[i]
          /\ tuplestore[i].rows = << >>
          /\ sq.sq_consumers[j].cs_node = 3
          /\ sq.sq_consumers[j].cs_status = CONSUMER_ACTIVE
          /\ sq.sq_consumers[j].cs_ntuples > 0
    /\ pc[2] = "acquired"
    /\ sqs_producer_latch.is_set

\* ------------------------------------------------ when the producer pauses
\* the producer can pause: the condition by the consumers that are active
CanPauseExpected(q) ==
    LET active == {i \in 0..(q.sq_nconsumers - 1) :
                      q.sq_consumers[i].cs_status = CONSUMER_ACTIVE}
        used(i) == q.sq_consumers[i].cs_qlength
                      - QUEUE_FREE_SPACE(q.sq_consumers[i])
        RECURSIVE UsedIn(_)
        UsedIn(S) == IF S = {} THEN 0
                     ELSE used(FirstOf(S)) + UsedIn(S \ {FirstOf(S)})
    IN  /\ active # {}
        /\ \A i \in active : q.sq_consumers[i].cs_ntuples > 0
        /\ UsedIn(active) \div Cardinality(active)
              > q.sq_consumers[0].cs_qlength \div 2

RECURSIVE RecordBytes(_, _, _, _)
RecordBytes(cstate, m, n, pos) ==
    IF n <= 0 THEN 0
    ELSE LET byte(k) == m[cstate.cs_qstart + ((pos + k) % cstate.cs_qlength)]
             len == DecodeInt([k \in 1..IntSize |-> byte(k - 1)])
             part == Min(len, cstate.cs_qlength - IntSize)
         IN  IntSize + part
               + RecordBytes(cstate, m, n - 1,
                             (pos + IntSize + part) % cstate.cs_qlength)

\* C25: for every consumer whose cs_ntuples is not LONG_TUPLE,
\* QUEUE_FREE_SPACE is the length of the queue less the bytes of the
\* records in the queue, each being IntSize bytes of length and the bytes
\* of the row after them; and as long as the rows written were short and
\* none was discarded, these records are the rows written that were
\* neither returned nor left in the tuplestore.
FreeSpaceIdentity ==
    \A i \in Slots :
        LET cstate == sq.sq_consumers[i]
            first == Len(hist.readout[i]) + 1
            last == Len(hist.written[i]) - Len(tuplestore[i].rows)
            RECURSIVE RowBytes(_)
            RowBytes(k) == IF k > last THEN 0
                           ELSE IntSize + Len(hist.written[i][k])
                                  + RowBytes(k + 1)
            inRing == RecordBytes(cstate, mem, cstate.cs_ntuples,
                                  cstate.cs_qreadpos)
        IN  (inHash /\ cstate.cs_ntuples # LONG_TUPLE) =>
               /\ QUEUE_FREE_SPACE(cstate) = cstate.cs_qlength - inRing
               /\ cstate.cs_qreadpos \in 0..(cstate.cs_qlength - 1)
               /\ cstate.cs_qwritepos \in 0..(cstate.cs_qlength - 1)
               /\ (/\ ~hist.inactive[i]
                   /\ cstate.cs_status \in {CONSUMER_ACTIVE, CONSUMER_EOF}
                   /\ \A k \in DOMAIN hist.written[i] :
                         IntSize + Len(hist.written[i][k])
                            <= cstate.cs_qlength)
                  => inRing = RowBytes(first)

\* after a row was read, the queue holds a record that lies in two parts,
\* at the end and at the start of the queue, and it is the part of a long
\* row, which fills the queue
FreeSpaceIdentityWitness ==
    LET cstate == sq.sq_consumers[0]
    IN  /\ cstate.cs_ntuples = 1
        /\ Len(hist.readout[0]) >= 1
        /\ cstate.cs_qreadpos > 0
        /\ QUEUE_FREE_SPACE(cstate) = 0
        /\ Len(hist.written[0][Len(hist.readout[0]) + 1])
              > cstate.cs_qlength - IntSize

\* ------------------------------------------- empty queues and full queues
\* C26 as stated: for every consumer whose cs_ntuples is not LONG_TUPLE,
\* cs_ntuples is 0 exactly if the read position is the write position
EmptyIffEqualPositions ==
    \A i \in Slots :
        LET cstate == sq.sq_consumers[i]
        IN  (inHash /\ cstate.cs_ntuples # LONG_TUPLE) =>
               (cstate.cs_ntuples = 0
                  <=> cstate.cs_qreadpos = cstate.cs_qwritepos)

\* C26: for every consumer whose cs_ntuples is not LONG_TUPLE, the read
\* position is the write position if cs_ntuples is 0; and if the two are
\* the same, either cs_ntuples is 0 or the queue is full: cs_ntuples is
\* positive, no byte is free and the records in it take its whole length,
\* as after the first part of a long row was pushed
EmptyOrFullAtEqualPositions ==
    \A i \in Slots :
        LET cstate == sq.sq_consumers[i]
        IN  (inHash /\ cstate.cs_ntuples # LONG_TUPLE) =>
               /\ cstate.cs_ntuples >= 0
               /\ cstate.cs_ntuples = 0 =>
                     cstate.cs_qreadpos = cstate.cs_qwritepos
               /\ (cstate.cs_qreadpos = cstate.cs_qwritepos
                   /\ cstate.cs_ntuples # 0) =>
                     /\ QUEUE_FREE_SPACE(cstate) = 0
                     /\ RecordBytes(cstate, mem, cstate.cs_ntuples,
                                    cstate.cs_qreadpos) = cstate.cs_qlength

\* the first part of a long row fills the queue: the positions are the
\* same and cs_ntuples is 1
EmptyOrFullAtEqualPositionsWitness ==
    LET cstate == sq.sq_consumers[0]
    IN  /\ cstate.cs_ntuples = 1
        /\ cstate.cs_qreadpos = cstate.cs_qwritepos
        /\ cstate.cs_status = CONSUMER_ACTIVE
        /\ hist.written[0] # << >>

\* ------------------------------------------------ the changes of a status
\* C27 as stated: a status changes only from active to EOF, error or done
\* and from EOF to done; a consumer starts active
StatusChangesAsListed ==
    [][\A i \in Slots :
            LET old == sq.sq_consumers[i].cs_status
                new == sq'.sq_consumers[i].cs_status
            IN  (inHash /\ inHash' /\ new # old) =>
                   <<old, new>> \in {<<CONSUMER_ACTIVE, CONSUMER_EOF>>,
                                     <<CONSUMER_ACTIVE, CONSUMER_ERROR>>,
                                     <<CONSUMER_ACTIVE, CONSUMER_DONE>>,
                                     <<CONSUMER_EOF, CONSUMER_DONE>>}]_vars

\* C27 as the code has it: a queue is created with every slot ACTIVE, and
\* the changes of a slot's status while the queue stays in the hash table are
\* ACTIVE to EOF, ACTIVE to ERROR, ACTIVE to DONE, EOF to DONE and also
\* ERROR to DONE (the consumer that finds ERROR acknowledges it with DONE);
\* no step moves a slot back to ACTIVE, out of DONE, or from ERROR to
\* anything but DONE
StatusChangesOfTheCode ==
    /\ [][\A p \in Procs : (AcquireReturns(p) /\ ~inHash) =>
             \A i \in 0..(sq'.sq_nconsumers - 1) :
                sq'.sq_consumers[i].cs_status = CONSUMER_ACTIVE]_vars
    /\ [][\A i \in Slots :
             LET old == sq.sq_consumers[i].cs_status
                 new == sq'.sq_consumers[i].cs_status
             IN  (inHash /\ inHash' /\ new # old) =>
                    /\ <<old, new>> \in {<<CONSUMER_ACTIVE, CONSUMER_EOF>>,
                                         <<CONSUMER_ACTIVE, CONSUMER_ERROR>>,
                                         <<CONSUMER_ACTIVE, CONSUMER_DONE>>,
                                         <<CONSUMER_EOF, CONSUMER_DONE>>,
                                         <<CONSUMER_ERROR, CONSUMER_DONE>>}
                    /\ new # CONSUMER_ACTIVE
                    /\ old # CONSUMER_DONE
                    /\ old = CONSUMER_ERROR => new = CONSUMER_DONE]_vars

\* a consumer has acknowledged the producer's error: its slot is DONE, the
\* other slot still carries ERROR
StatusChangesOfTheCodeWitness ==
    /\ inHash
    /\ sq.sq_pid # 0
    /\ \E i, j \in Slots :
          /\ sq.sq_consumers[i].cs_status = CONSUMER_DONE
          /\ sq.sq_consumers[j].cs_status = CONSUMER_ERROR
    /\ \E p \in hist.bound \ {sq.sq_pid} : pc[p] \in {"end", "cons_done"}

\* ------------------------------------------- the latch of the counterparty
\* C28: a step that changes the status of a consumer sets the latch of the
\* other side: the latch of that consumer when the producer makes the change
\* (to EOF, to ERROR, to DONE in SharedQueueResetNotConnected), the latch of
\* the producer when a consumer makes it; SharedQueueDisconnectConsumer sets
\* the latch of the producer once, when its loop has ended
StatusChangeSetsLatch ==
    /\ [][\A i \in Slots :
             LET old == sq.sq_consumers[i].cs_status
                 new == sq'.sq_consumers[i].cs_status
                 byNotConnected ==
                     \E p \in Procs : /\ pc[p] = "rnc_scan" /\ loc[p].i = i
                                      /\ (pc'[p] # pc[p] \/ loc'[p] # loc[p])
                 byDisconnect ==
                     \E p \in Procs : /\ pc[p] = "dc_scan" /\ loc[p].i = i
                                      /\ (pc'[p] # pc[p] \/ loc'[p] # loc[p])
             IN  (inHash /\ inHash' /\ new # old) =>
                    IF new \in {CONSUMER_EOF, CONSUMER_ERROR} \/ byNotConnected
                    THEN cs_latch'[i].is_set
                    ELSE byDisconnect \/ sqs_producer_latch'.is_set]_vars
    /\ [][\A p \in Procs :
             (pc[p] = "dc_scan" /\ pc'[p] # "dc_scan") =>
                sqs_producer_latch'.is_set]_vars

\* ---------------------------------------------- the wake-up of a reader
\* The producer writes rows that fit the queue and finishes; the consumer
\* reads and waits, its wait taken instruction by instruction.
NextWake ==
    \E p \in Procs :
        \/ /\ hist.nwrites < MaxWrites
           /\ \E i \in SlotIds, len \in DataLens :
                 /\ i \in Slots
                 /\ IntSize + len <= sq.sq_consumers[i].cs_qlength
                 /\ SharedQueueWrite(p, i, len)
        \/ FinishCall(p)
        \/ ReadCall(p, TRUE)
        \/ ReadBody(p) /\ pc'[p] # "rd_wait"
        \/ ReadResetLatch(p)
        \/ ReadReleaseConsumer(p)
        \/ ReadSignalProducer(p)
        \/ ReadWake(p)

\* the steps of a consumer inside SharedQueueRead
ReadStep(p) ==
    \/ ReadBody(p) /\ pc'[p] # "rd_wait"
    \/ ReadResetLatch(p)
    \/ ReadReleaseConsumer(p)
    \/ ReadSignalProducer(p)
    \/ ReadWake(p)

\* a consumer inside SharedQueueRead goes on whenever it can: it runs, an
\* LWLock it waits for is released after a few instructions of the holder,
\* and WaitLatch returns when the latch is set
SpecWake ==
    /\ InitData
    /\ [][NextWake]_vars
    /\ \A p \in Procs : WF_vars(ReadStep(p))

\* C29: a consumer that found its queue empty in SharedQueueRead(canwait)
\* and is resetting its latch, releasing its locks or waiting, and whose
\* queue has since got a row (SharedQueueWrite, SharedQueueDump) or the
\* status EOF (SharedQueueFinish), returns from SharedQueueRead with the
\* row or with the end of the data
NoLostWakeup ==
    \A p \in Procs :
        (/\ pc[p] \in {"rd_reset", "rd_signal", "rd_wait"}
         /\ \/ sq.sq_consumers[loc[p].myindex].cs_ntuples > 0
            \/ sq.sq_consumers[loc[p].myindex].cs_status = CONSUMER_EOF)
        ~> (/\ pc[p] \in {"consumer", "cons_done"}
            /\ loc[p].result \in {"tuple", "eof"})

\* the producer has written a row between the consumer's release of its
\* lock and its WaitLatch: the latch is set before the consumer waits
NoLostWakeupWitness ==
    \E p \in Procs :
        /\ pc[p] = "rd_signal"
        /\ sq.sq_consumers[loc[p].myindex].cs_ntuples = 1
        /\ cs_latch[loc[p].myindex].is_set
        /\ cs_latch[loc[p].myindex].owner_pid = p
        /\ hist.readout[loc[p].myindex] # << >>

\* ------------------------------------------------ waiting without a lock
\* The life of a queue from its creation, or the rows of a bound queue with
\* the wait of SharedQueueRead taken whole and instruction by instruction.
InitWaits == Init \/ InitData

NextWaits ==
    \/ SQueueSize = ProtoQueueSize /\ Next
    \/ SQueueSize = DataQueueSize /\ (NextData \/ NextWake)

SpecWaits == InitWaits /\ [][NextWaits]_vars

\* C30: a session that waits for a latch (in SharedQueueRead, in
\* sq_pull_long_tuple, in SharedQueueUnBind) or sleeps before it tries
\* SharedQueueAcquire again holds neither SQueuesLock nor a producer lock
\* nor a consumer lock; and the reader has reset its latch while it still
\* holds its consumer lock, and does not touch the latch between the
\* release of that lock and WaitLatch
NeverSuspendedWithLock ==
    /\ [](\A p \in Procs :
             pc[p] \in {"rd_wait", "pull_wait", "ub_wait", "acq_sleep"}
                => HoldsNoLock(p))
    /\ [](\A p \in Procs :
             pc[p] = "rd_reset" =>
                /\ cs_lwlock[loc[p].myindex] = p
                /\ ~cs_latch[loc[p].myindex].is_set)
    /\ [][\A p \in Procs :
             (pc[p] \in {"rd_reset", "rd_signal"} /\ pc'[p] # pc[p]) =>
                /\ cs_latch'[loc[p].myindex] = cs_latch[loc[p].myindex]
                /\ pc[p] = "rd_reset" =>
                      cs_lwlock'[loc[p].myindex] = 0
                /\ pc'[p] = "rd_wait" => HoldsNoLock(p)']_vars

\* the producer waits in SharedQueueUnBind for a consumer that waits in
\* SharedQueueRead while a third session sleeps in SharedQueueAcquire
NeverSuspendedWithLockWitness ==
    \E p, q, r \in Procs :
        /\ pc[p] = "ub_wait" /\ pc[q] = "rd_wait" /\ pc[r] = "acq_sleep"
        /\ SQueuesLock = 0
        /\ sqs_producer_lwlock = FreeProducerLock

\* -------------------------------------------- when a queue counts as stale
\* SharedQueueAcquire of session p decides about a queue that is in the
\* hash table: it goes to sleep or it returns
AcquireDecides(p) ==
    /\ inHash
    /\ pc[p] \in {"idle", "acq_again", "acq_cons"}
    /\ pc'[p] \in {"acq_sleep", "acquired"}

FrontIsPartial(cstate, m) ==
    /\ cstate.cs_ntuples >= 1
    /\ DecodeInt(QUEUE_READ(cstate, m, IntSize).buf)
          > cstate.cs_qlength - IntSize

\* C32: while a long tuple is passed, the producer and the consumer take
\* turns. A part that is not the last one is the only record of the queue
\* and is written when cs_ntuples is 0 or LONG_TUPLE; while it is there
\* only the consumer changes the consumer state, and it sets LONG_TUPLE
\* having read the whole part, with its offset left at the start of the
\* queue; a consumer state with LONG_TUPLE is changed only by the producer,
\* which writes the next part and sets cs_ntuples to 1
LongTupleTurns ==
    /\ [](\A i \in Slots :
             /\ FrontIsPartial(sq.sq_consumers[i], mem)
                   => sq.sq_consumers[i].cs_ntuples = 1
             /\ \A p \in ConsumerOf(i) :
                   pc[p] \in {"pull_wait", "pull_cons"} =>
                      \/ sq.sq_consumers[i].cs_ntuples = LONG_TUPLE
                      \/ sq.sq_consumers[i].cs_ntuples >= 1)
    /\ [][\A i \in Slots :
             LET c == sq.sq_consumers[i]
                 d == sq'.sq_consumers[i]
                 part == c.cs_qlength - IntSize
                 reads == \E p \in ConsumerOf(i) :
                             /\ pc[p] \in {"rd_cons", "pull_cons"}
                             /\ pc'[p] = "pull_wait"
                             /\ loc'[p].offset = loc[p].offset + part
                             /\ loc'[p].msg = loc[p].msg \o
                                   QUEUE_READ(QUEUE_READ(c, mem, IntSize).cs,
                                              mem, part).buf
                             /\ DecodeInt(MemCopyOut(mem', c.cs_qstart,
                                                     IntSize))
                                   = loc'[p].offset
                 writes == /\ \A p \in ConsumerOf(i) :
                                 pc'[p] = pc[p] /\ loc'[p] = loc[p]
                           /\ d.cs_ntuples = 1
                           /\ d.cs_qreadpos = c.cs_qreadpos
                           /\ d.cs_qwritepos # c.cs_qwritepos
                                 \/ Min(DecodeInt(QUEUE_READ(d, mem',
                                                     IntSize).buf), part)
                                       = part
             IN  /\ (FrontIsPartial(d, mem') /\ ~FrontIsPartial(c, mem))
                       => c.cs_ntuples \in {0, LONG_TUPLE} /\ writes
                 /\ (FrontIsPartial(c, mem) /\ d # c)
                       => /\ d.cs_ntuples = LONG_TUPLE
                          /\ d.cs_qreadpos = d.cs_qwritepos
                          /\ reads
                 /\ (d.cs_ntuples = LONG_TUPLE /\ c.cs_ntuples # LONG_TUPLE)
                       => FrontIsPartial(c, mem) /\ reads
                 /\ (c.cs_ntuples = LONG_TUPLE /\ d # c) => writes]_vars

\* the consumer has read two parts of a long tuple and waits for the third
LongTupleTurnsWitness ==
    \E p \in Procs :
        /\ pc[p] = "pull_wait"
        /\ sq.sq_consumers[loc[p].myindex].cs_ntuples = LONG_TUPLE
        /\ loc[p].offset = 2 * (sq.sq_consumers[loc[p].myindex].cs_qlength
                                  - IntSize)
        /\ loc[p].offset < loc[p].datalen

\* ------------------------------------------- a reset during a long tuple
\* The data path of SpecData with a producer that may call
\* SharedQueueReset for all consumers at any time, also while the consumer
\* waits for the next part of a long tuple. A consumer that has copied
\* beyond the end of its row is not reset again.
NextPull ==
    \E p \in Procs :
        \/ /\ hist.nwrites < MaxWrites
           /\ \E i \in SlotIds, len \in DataLens :
                  SharedQueueWrite(p, i, len)
        \/ ReadCall(p, TRUE)
        \/ ReadBody(p)
        \/ ReadWake(p)
        \/ PullWake(p)
        \/ PullBody(p)
        \/ PullAbort(p)
        \/ FinishCall(p)
        \/ /\ pc[p] = "producer"
           /\ \A q \in Procs : loc[q].offset <= loc[q].datalen
           /\ ResetCall(p)
        \/ ResetScan(p)

SpecPull == InitData /\ [][NextPull]_vars

\* C33: the length the consumer reads after it was woken in
\* sq_pull_long_tuple is what is left of the row, its length less the bytes
\* read so far, also when the producer has reset the consumer in between;
\* and the rows SharedQueueRead returns are rows that were written
PullHeaderIsRest ==
    /\ [][\A p \in Procs :
             (/\ pc[p] = "pull_cons" /\ pc'[p] # "pull_cons"
              /\ sq.sq_consumers[loc[p].myindex].cs_ntuples # LONG_TUPLE)
             => DecodeInt(QUEUE_READ(sq.sq_consumers[loc[p].myindex], mem,
                                     IntSize).buf)
                  = loc[p].datalen - loc[p].offset]_vars
    /\ [](\A i \in SlotIds : \A k \in DOMAIN hist.readout[i] :
             \E j \in DOMAIN hist.written[i] :
                hist.readout[i][k] = hist.written[i][j])

\* ------------------------------------------------ what SharedQueueDump keeps
\* What the header comment of SharedQueueDump asks of it, row by row: a
\* row that fits is enqueued and the dump goes on with the next one; a row
\* that does not fit an empty queue, or that is being pushed, gets its next
\* part and stays the first row unless that was its last part; any other
\* row that does not fit ends the dump with this row as the first one.
RECURSIVE DumpExpected(_, _, _)
DumpExpected(cstate, m, rows) ==
    IF rows = << >>
    THEN [cs |-> cstate, mem |-> m, rows |-> rows, ret |-> TRUE]
    ELSE IF QUEUE_FREE_SPACE(cstate) >= IntSize + Len(Head(rows))
    THEN LET w == EnqueueRow(cstate, m, Head(rows))
         IN  DumpExpected([w.cs EXCEPT !.cs_ntuples = @ + 1], w.mem,
                          Tail(rows))
    ELSE IF cstate.cs_ntuples <= 0
    THEN LET push == sq_push_long_tuple(cstate, m, Head(rows))
         IN  IF push.done
             THEN DumpExpected(push.cs, push.mem, Tail(rows))
             ELSE [cs |-> push.cs, mem |-> push.mem, rows |-> rows,
                   ret |-> FALSE]
    ELSE [cs |-> cstate, mem |-> m, rows |-> rows, ret |-> FALSE]

\* the result d of SharedQueueDump for the consumer state, memory and store
DumpKeeps(cstate, m, st, d) ==
    IF cstate.cs_status # CONSUMER_ACTIVE
    THEN d.ret /\ d.rows = << >> /\ d.cs = cstate /\ d.mem = m
    ELSE LET e == DumpExpected(cstate, m, st.rows)
             k == Len(st.rows) - Len(d.rows)
         IN  /\ k >= 0
             /\ d.rows = SubSeq(st.rows, k + 1, Len(st.rows))
             /\ d.ret <=> d.rows = << >>
             /\ d.cs = e.cs /\ d.mem = e.mem /\ d.rows = e.rows
             /\ d.ret = e.ret

\* C34: SharedQueueDump returns true only when every row of the store was
\* enqueued, or when the consumer is not active and the store was cleared;
\* when it returns false the rows left in the store are the row that did
\* not fit, or the long row whose push is not finished, and all later rows
\* in their order, and the queue holds the rows before it and nothing of
\* the rows after it
DumpLosesNothing ==
    \A i \in Slots :
        tuplestore[i].exists =>
            DumpKeeps(sq.sq_consumers[i], mem, tuplestore[i],
                      SharedQueueDump(sq.sq_consumers[i], mem, tuplestore[i]))

\* a store from which a dump enqueues the first row and leaves the second
DumpLosesNothingWitness ==
    \E i \in Slots :
        /\ tuplestore[i].exists
        /\ Len(tuplestore[i].rows) = 2
        /\ sq.sq_consumers[i].cs_status = CONSUMER_ACTIVE
        /\ QUEUE_FREE_SPACE(sq.sq_consumers[i])
              > sq.sq_consumers[i].cs_qlength \div 2
        /\ LET d == SharedQueueDump(sq.sq_consumers[i], mem, tuplestore[i])
           IN  ~d.ret /\ Len(d.rows) = 1

\* ------------------------------------- consumers that have not connected
\* Two consumers acquire a queue; the producer binds and writes, also to
\* consumers that have not bound, and gives up waiting for them.
NextNotConnected ==
    \E p \in Procs :
        \/ BindCall(p)
        \/ BindProd(p)
        \/ BindMap(p)
        \/ BindRefcnt(p)
        \/ BindCons(p)
        \/ /\ hist.nwrites < MaxWrites
           /\ \E i \in SlotIds, len \in DataLens :
                  /\ IntSize + len <= sq.sq_consumers[i].cs_qlength
                  /\ SharedQueueWrite(p, i, len)
        \/ ReadCall(p, TRUE)
        \/ ReadBody(p)
        \/ ReadWake(p)
        \/ ResetNotConnectedCall(p)
        \/ ResetNotConnectedLock(p)
        \/ ResetNotConnectedScan(p)

SpecNotConnected == InitDisc /\ [][NextNotConnected]_vars

\* C35: SharedQueueResetNotConnected visits every consumer once; a consumer
\* with cs_pid = 0 whose status is not DONE becomes DONE with cs_ntuples,
\* cs_qreadpos and cs_qwritepos 0 and its latch set; every other consumer
\* and its latch are left as they are, and so are sq_pid, sq_refcnt and the
\* other fields of the queue
ResetNotConnectedFrame ==
    [][\A p \in Procs :
          /\ (pc[p] = "rnc_prod" /\ pc'[p] # pc[p]) =>
                /\ sq' = sq /\ cs_latch' = cs_latch
                /\ pc'[p] = "rnc_scan" /\ loc'[p].i = 0
          /\ (pc[p] = "rnc_scan" /\ (pc'[p] # pc[p] \/ loc'[p] # loc[p])) =>
                LET i == loc[p].i
                    cstate == sq.sq_consumers[i]
                    hit == cstate.cs_pid = 0
                           /\ cstate.cs_status # CONSUMER_DONE
                IN  /\ i \in Slots
                    /\ IF hit
                       THEN /\ sq' = [sq EXCEPT !.sq_consumers[i] =
                                  [cstate EXCEPT
                                      !.cs_status = CONSUMER_DONE,
                                      !.cs_ntuples = 0,
                                      !.cs_qreadpos = 0,
                                      !.cs_qwritepos = 0]]
                            /\ cs_latch' = [cs_latch EXCEPT
                                               ![i].is_set = TRUE]
                       ELSE sq' = sq /\ cs_latch' = cs_latch
                    /\ inHash' = inHash /\ mem' = mem
                    /\ sqs_producer_latch' = sqs_producer_latch
                    /\ IF i + 1 < sq.sq_nconsumers
                       THEN pc'[p] = "rnc_scan" /\ loc'[p].i = i + 1
                       ELSE pc'[p] = loc[p].ret /\ HoldsNoLock(p)']_vars

\* the first consumer had not bound and had a row in its queue: it is DONE
\* and empty with its latch set; the second has bound and is left active
ResetNotConnectedFrameWitness ==
    \E p \in Procs :
        /\ pc[p] = "producer" /\ sq.sq_pid = p
        /\ hist.written[0] # << >> /\ hist.readout[0] = << >>
        /\ sq.sq_consumers[0].cs_status = CONSUMER_DONE
        /\ sq.sq_consumers[0].cs_pid = 0
        /\ sq.sq_consumers[0].cs_ntuples = 0
        /\ cs_latch[0].is_set
        /\ sq.sq_consumers[1].cs_pid # 0
        /\ sq.sq_consumers[1].cs_status = CONSUMER_ACTIVE

\* ----------------------------------------------------- who owns a latch
\* C36 as stated: the latch of a consumer with cs_pid set is owned by that
\* session and the producer latch of a bound queue by its producer
LatchOwnedByPid ==
    inHash =>
       /\ \A i \in Slots :
             sq.sq_consumers[i].cs_pid # 0
                => cs_latch[i].owner_pid = sq.sq_consumers[i].cs_pid
       /\ sq.sq_pid # 0 => sqs_producer_latch.owner_pid = sq.sq_pid

\* C36 as the code has it: the latch of a consumer with cs_pid set is owned
\* by that session as long as the consumer is not DONE, and the producer
\* latch of a bound queue is owned by its producer as long as the producer
\* has not returned from SharedQueueUnBind, which disowns it at its end;
\* cs_pid and sq_pid are left set after that
LatchOwnedWhileLive ==
    inHash =>
       /\ \A i \in Slots :
             LET cstate == sq.sq_consumers[i]
             IN  (cstate.cs_pid # 0 /\ cstate.cs_status # CONSUMER_DONE)
                       => cs_latch[i].owner_pid = cstate.cs_pid
       /\ (sq.sq_pid # 0 /\ pc[sq.sq_pid] \in
               {"producer", "fin", "rs_scan", "rnc_prod", "rnc_scan",
                "ub_lock", "ub_scan", "ub_wait", "ub_final_reg",
                "ub_final_prod", "ub_final_scan"})
             => sqs_producer_latch.owner_pid = sq.sq_pid

\* a consumer that has read EOF keeps cs_pid but not its latch, while
\* another consumer and the producer are bound and own theirs
LatchOwnedWhileLiveWitness ==
    /\ inHash
    /\ sq.sq_pid # 0
    /\ pc[sq.sq_pid] = "producer"
    /\ sqs_producer_latch.owner_pid = sq.sq_pid
    /\ \E i, j \in Slots :
          /\ sq.sq_consumers[i].cs_pid # 0
          /\ sq.sq_consumers[i].cs_status = CONSUMER_DONE
          /\ cs_latch[i].owner_pid = NoPid
          /\ sq.sq_consumers[j].cs_pid # 0
          /\ sq.sq_consumers[j].cs_status = CONSUMER_ACTIVE
          /\ cs_latch[j].owner_pid = sq.sq_consumers[j].cs_pid

\* ------------------------------------------------- removal of the entry
\* C38 as stated: when the entry is removed from the hash table no session
\* is left that has acquired or bound the queue and has not made its
\* SharedQueueRelease call yet; the sessions that are left have not begun,
\* have ended, or are still trying to acquire
NoPrematureRemoval ==
    [][(inHash /\ ~inHash')
          => \A p \in Procs :
                pc'[p] \in {"idle", "end", "acq_sleep", "acq_again"}]_vars

\* --------------------------------------------- latches of a removed entry
\* C39 as stated: when the entry is removed from the hash table and its
\* SQueueSync is free again, no latch of the SQueueSync has an owner
NoLatchLeaked ==
    [][(inHash /\ ~inHash')
          => /\ sqs_producer_latch'.owner_pid = NoPid
             /\ \A i \in SlotIds : cs_latch'[i].owner_pid = NoPid]_vars

\* ------------------------------------------------ the range of cs_ntuples
\* C40 as stated: cs_ntuples of every consumer is zero or more, or it is
\* LONG_TUPLE
TuplesCountedOrLong ==
    inHash =>
       \A i \in Slots :
          \/ sq.sq_consumers[i].cs_ntuples >= 0
          \/ sq.sq_consumers[i].cs_ntuples = LONG_TUPLE

\* ------------------------------------------------ the pool of SQueueSyncs
\* Several queue names share the hash table SharedQueues and the array
\* SQueueSyncs.  An entry is reduced to the fields the pool depends on:
\* its key, sq_pid, sq_sync and sq_refcnt; the consumers are left out, so
\* SharedQueueAcquire takes an entry it finds (the caller's consumer is
\* not CONSUMER_DONE) and SharedQueueUnBind is called with failed = true
\* and does not wait.  A session goes back to "idle" after
\* SharedQueueRelease and may go on with another queue.
\* hash_search(SharedQueues, sqname, HASH_FIND): the entry, 0 if none
LookupQueue(name) ==
    LET hit == {e \in 1..NUM_SQUEUES : SharedQueues[e].found
                                /\ SharedQueues[e].sq_key = name}
    IN  IF hit = {} THEN 0 ELSE CHOOSE e \in hit : TRUE

\* a backend dereferences NULL or raises PANIC: the postmaster ends all
\* sessions and initialises the shared memory again (SharedQueuesInit)
Restart ==
    /\ SharedQueues' = NoQueues
    /\ SQueueSyncs' = [b \in 1..NUM_SQUEUES |-> 0]
    /\ pc' = [q \in Procs |-> "idle"]
    /\ loc' = [q \in Procs |-> Loc0]

\* SharedQueueAcquire (lines 297-438): count the caller in, or create the
\* entry in a free element of the hash table and rent the first SQueueSync
\* whose queue is NULL; sq_sync is left as it is when there is none
AcquireEntry(p, name) ==
    /\ pc[p] = "idle"
    /\ hist.nacquires < MaxAcquires
    /\ hist' = [hist EXCEPT !.nacquires = @ + 1]
    /\ LET e == LookupQueue(name)
           free == {b \in 1..NUM_SQUEUES : SQueueSyncs[b] = 0}
           sqs == IF free = {} THEN 0
                  ELSE CHOOSE b \in free : \A c \in free : b <= c
       IN  IF e # 0
           THEN /\ SharedQueues[e].sq_refcnt < MaxRefcnt
                /\ SharedQueues' =
                       [SharedQueues EXCEPT ![e].sq_refcnt = @ + 1]
                /\ SQueueSyncs' = SQueueSyncs
           ELSE \E f \in 1..NUM_SQUEUES :
                  /\ ~SharedQueues[f].found
                  /\ SharedQueues' = [SharedQueues EXCEPT ![f] =
                         [found |-> TRUE, sq_key |-> name, sq_pid |-> 0,
                          sq_sync |-> IF sqs # 0 THEN sqs
                                      ELSE SharedQueues[f].sq_sync,
                          sq_refcnt |-> 1]]
                  /\ SQueueSyncs' = IF sqs # 0
                                    THEN [SQueueSyncs EXCEPT ![sqs] = f]
                                    ELSE SQueueSyncs
    /\ pc' = [pc EXCEPT ![p] = "acquired"]
    /\ loc' = [loc EXCEPT ![p].sqname = name]
    /\ UNCHANGED <<SQueueSize, consNodes, distNodes, inHash, sq, mem,
                   syncQueue, SQueuesLock, sqs_producer_lwlock, cs_lwlock,
                   sqs_producer_latch, cs_latch, tuplestore>>

\* SharedQueueBind (lines 466-503, 582): the first to bind is the producer
\* and has read sq_refcnt to increment it; the others are consumers
BindEntry(p) ==
    /\ pc[p] = "acquired"
    /\ LET e == LookupQueue(loc[p].sqname)
       IN  IF e = 0
           THEN /\ pc' = [pc EXCEPT ![p] = "failed"]
                /\ UNCHANGED <<SharedQueues, SQueueSyncs, loc>>
           ELSE IF SharedQueues[e].sq_sync = 0
           THEN Restart
           ELSE IF SharedQueues[e].sq_pid = 0
           THEN /\ SharedQueues' = [SharedQueues EXCEPT ![e].sq_pid = p]
                /\ pc' = [pc EXCEPT ![p] = "bind_refcnt"]
                /\ loc' = [loc EXCEPT ![p].squeue = e,
                              ![p].refcnt = SharedQueues[e].sq_refcnt]
                /\ SQueueSyncs' = SQueueSyncs
           ELSE /\ pc' = [pc EXCEPT ![p] = "consumer"]
                /\ loc' = [loc EXCEPT ![p].squeue = e]
                /\ UNCHANGED <<SharedQueues, SQueueSyncs>>
    /\ UNCHANGED <<SQueueSize, consNodes, distNodes, inHash, sq, mem,
                   syncQueue, SQueuesLock, sqs_producer_lwlock, cs_lwlock,
                   sqs_producer_latch, cs_latch, tuplestore, hist>>

\* the store of sq->sq_refcnt++ (line 582), SQueuesLock not held
BindEntryRefcnt(p) ==
    /\ pc[p] = "bind_refcnt"
    /\ SharedQueues' = [SharedQueues EXCEPT
                           ![loc[p].squeue].sq_refcnt = loc[p].refcnt + 1]
    /\ pc' = [pc EXCEPT ![p] = "producer"]
    /\ loc' = [loc EXCEPT ![p].refcnt = 0]
    /\ UNCHANGED <<SQueueSyncs, SQueueSize, consNodes, distNodes, inHash, sq,
                   mem,
                   syncQueue, SQueuesLock, sqs_producer_lwlock, cs_lwlock,
                   sqs_producer_latch, cs_latch, tuplestore, hist>>

\* SharedQueueUnBind keeps squeue->sq_sync from its first line on (line
\* 1507)
UnBindEntryCall(p) ==
    /\ pc[p] = "producer"
    /\ IF SharedQueues[loc[p].squeue].sq_sync = 0
       THEN Restart
       ELSE /\ pc' = [pc EXCEPT ![p] = "ub_lock"]
            /\ loc' = [loc EXCEPT
                          ![p].sqsync = SharedQueues[loc[p].squeue].sq_sync]
            /\ UNCHANGED <<SharedQueues, SQueueSyncs>>
    /\ UNCHANGED <<SQueueSize, consNodes, distNodes, inHash, sq, mem,
                   syncQueue, SQueuesLock, sqs_producer_lwlock, cs_lwlock,
                   sqs_producer_latch, cs_latch, tuplestore, hist>>

\* the end of SharedQueueUnBind (lines 1592, 1631-1641): the last holder
\* clears squeue->sq_sync and the queue of the SQueueSync it has kept, and
\* removes the entry under the key of squeue
UnBindEntryFinal(p) ==
    /\ pc[p] = "ub_lock"
    /\ LET e == loc[p].squeue
           sqs == loc[p].sqsync
       IN  IF SharedQueues[e].sq_refcnt - 1 # 0
           THEN /\ SharedQueues' = [SharedQueues EXCEPT ![e].sq_refcnt = @ - 1]
                /\ SQueueSyncs' = SQueueSyncs
                /\ pc' = [pc EXCEPT ![p] = "unbound"]
                /\ loc' = [loc EXCEPT ![p].squeue = 0, ![p].sqsync = 0]
           ELSE IF LookupQueue(SharedQueues[e].sq_key) # e
           THEN Restart
           ELSE /\ SharedQueues' = [SharedQueues EXCEPT
                                       ![e].sq_refcnt = 0, ![e].sq_sync = 0,
                                       ![e].found = FALSE]
                /\ SQueueSyncs' = [SQueueSyncs EXCEPT ![sqs] = 0]
                /\ pc' = [pc EXCEPT ![p] = "unbound"]
                /\ loc' = [loc EXCEPT ![p].squeue = 0, ![p].sqsync = 0]
    /\ UNCHANGED <<SQueueSize, consNodes, distNodes, inHash, sq, mem,
                   syncQueue, SQueuesLock, sqs_producer_lwlock, cs_lwlock,
                   sqs_producer_latch, cs_latch, tuplestore, hist>>

\* SharedQueueRelease (lines 1657-1662, 1784-1792): the entry is looked up
\* by name; the last holder clears the queue of sq->sq_sync, then sq_sync,
\* and removes the entry
ReleaseEntry(p) ==
    /\ pc[p] \in {"acquired", "consumer", "failed", "unbound"}
    /\ LET e == LookupQueue(loc[p].sqname)
       IN  IF e = 0
           THEN /\ pc' = [pc EXCEPT ![p] = "idle"]
                /\ loc' = [loc EXCEPT ![p] = Loc0]
                /\ UNCHANGED <<SharedQueues, SQueueSyncs>>
           ELSE IF SharedQueues[e].sq_sync = 0
           THEN Restart
           ELSE /\ IF SharedQueues[e].sq_refcnt - 1 # 0
                   THEN /\ SharedQueues' =
                               [SharedQueues EXCEPT ![e].sq_refcnt = @ - 1]
                        /\ SQueueSyncs' = SQueueSyncs
                   ELSE /\ SharedQueues' = [SharedQueues EXCEPT
                               ![e].sq_refcnt = 0, ![e].sq_sync = 0,
                               ![e].found = FALSE]
                        /\ SQueueSyncs' = [SQueueSyncs EXCEPT
                               ![SharedQueues[e].sq_sync] = 0]
                /\ pc' = [pc EXCEPT ![p] = "idle"]
                /\ loc' = [loc EXCEPT ![p] = Loc0]
    /\ UNCHANGED <<SQueueSize, consNodes, distNodes, inHash, sq, mem,
                   syncQueue, SQueuesLock, sqs_producer_lwlock, cs_lwlock,
                   sqs_producer_latch, cs_latch, tuplestore, hist>>

NextSync ==
    \E p \in Procs :
        \/ \E name \in {"a", "b"} : AcquireEntry(p, name)
        \/ BindEntry(p)
        \/ BindEntryRefcnt(p)
        \/ UnBindEntryCall(p)
        \/ UnBindEntryFinal(p)
        \/ ReleaseEntry(p)

SpecSync == Init /\ [][NextSync]_vars

\* C37 as stated: the entries of the hash table and the rented SQueueSyncs
\* correspond one to one: the sq_sync of an entry is an SQueueSync whose
\* queue is that entry, and the queue of an SQueueSync is NULL or an entry
\* of the hash table whose sq_sync is that SQueueSync, so that the
\* SQueueSync of a removed entry is free
SyncOfExactlyOneQueue ==
    /\ \A e \in 1..NUM_SQUEUES :
          SharedQueues[e].found
             => /\ SharedQueues[e].sq_sync # 0
                /\ SQueueSyncs[SharedQueues[e].sq_sync] = e
    /\ \A b \in 1..NUM_SQUEUES :
          SQueueSyncs[b] # 0
             => /\ SharedQueues[SQueueSyncs[b]].found
                /\ SharedQueues[SQueueSyncs[b]].sq_sync = b
====
